---- MODULE Spec2Model ----
(***************************************************************************)
(* A model of the python-memcache client core:                             *)
(*   - Pool.get / AsyncPool.get        (memcache/connection.py,            *)
(*                                      memcache/async_connection.py)      *)
(*   - Connection.execute_meta_command (same files)                        *)
(*   - MetaCommand.dump_header, MetaResult.load_header                     *)
(*                                     (memcache/meta_command.py)          *)
(* Bytes are modelled as one-character strings, byte strings as sequences  *)
(* of them.                                                                *)
(***************************************************************************)
EXTENDS Integers, Sequences, FiniteSets, TLC

\* ------------------------------------------------------------------ bounds
\* Number of stores the server accepts in a behaviour.
MaxStores == 2
NumPools == 2
MaxCalls == 2
MaxKeys == 2
MaxLinks == 3
MaxTokens == 2
\* Number of concurrent callers (OS threads or tasks) sharing one pool.
NumCallers == 2
\* Largest max_size a pool is built with.
MaxPoolSize == 2
\* Number of commands executed on one connection.
MaxCommands == 2
\* Largest number of flags of a command given to the codec.
MaxFlags == 2

Callers == 1..NumCallers

VARIABLES
    \* ---- the pool (Pool / AsyncPool) ----
    variant,      \* "blocking" (Pool, OS threads) or "cooperative" (AsyncPool, tasks)
    max_size,     \* Pool._max_size
    size,         \* Pool._size
    lock,         \* Pool._lock: 0 when free, else the caller holding it
    connections,  \* Pool._connections: the idle FIFO, a sequence of connection ids
    made,         \* number of connections create_connection() has returned; ids 1..made
    pc,           \* per caller: where its Pool.get() generator stands
    conn,         \* per caller: the connection the with-body holds, 0 when none
    thrown,       \* per caller: the generator was resumed by throw(), the body is over
    err,          \* per caller: the exception the last get() raised to the caller
    \* ---- one connection (Connection / AsyncConnection) and its server ----
    auth,         \* username and password are both configured
    connected,    \* AsyncConnection._connected (a blocking Connection connects when built)
    phase,        \* where execute_meta_command stands
    attempt,      \* which call of _execute_meta_command is running: 1, or 2 (the retry)
    cmd,          \* the command being executed
    sent,         \* what each attempt of this execute wrote, one byte string per attempt
    reconnects,   \* _connect() calls made by this execute after its first attempt failed
    inbuf,        \* bytes the server has sent on the current link, not yet read
    link,         \* the current link: "none", "open", "eof" (peer closed) or "reset"
    server_ok,    \* every command on the current link got one well-formed response
    reply,        \* the response the server gave to the last command
    hdr,          \* the parsed header of a VA response whose payload is still to be read
    result,       \* Optional[MetaResult]: what the execute returned
    err1,         \* the exception that ended the first attempt, NoErr when none
    cerr,         \* the exception the execute raised to its caller, NoErr when none
    nexec,        \* number of executes started on this connection
    \* ---- the codec applied to inputs ----
    \* (the last call of a codec function, with its result)
    hcmd,         \* the MetaCommand dump_header was called on
    header,       \* the bytes dump_header returned
    rline,        \* the response line load_header was called on
    parsed,       \* Optional: what that call ended with, a result or an exception
    \* ---- the clients (MetaClient, Memcache) and a server holding one key ----
    call,         \* the last client call: who made it, the method and its arguments
    ccmd,         \* the MetaCommand that call executed
    cresp,        \* what the execute of that command ended with
    ret,          \* how the call ended: returned (a value), raised, or blocked
    store,        \* Optional: the server's item under the key: value, flags, cas
    next_cas,     \* the CAS token the server gives to the next store
    seen,         \* per caller, Optional: the value and CAS token of its last read
    since,        \* per caller, Optional: the last successful write after that read
    last_set,     \* Optional: the value of a set that returned, no write after it
    hung,         \* the callers whose call never returned
    \* ---- a client over several endpoints: the ring and one pool per endpoint ----
    klass,        \* the class of the client: "MetaClient" or "Memcache"
    ring,         \* HashRing.get_node as the construction left it: key -> pool
    nodes,        \* per pool: Pool._size and the idle FIFO of its connections
    trail,        \* what the last call wrote, in order: pool, connection, bytes
    routed,       \* per key (as text): pool, form of the key and method of each call
    ncalls,       \* number of calls made on the client
    \* ---- one connection and the links it opened, with credentials ----
    username,     \* Optional text: Connection._username
    password,     \* Optional text: Connection._password
    cstate,       \* "new" (no link yet), "ready", "discarded" (an operation raised)
    links         \* per link opened, in order: bytes written, the reply read by _auth

poolVars == <<variant, max_size, size, lock, connections, made, pc, conn, thrown, err>>

connVars == <<auth, connected, phase, attempt, cmd, sent, reconnects, inbuf, link,
              server_ok, reply, hdr, result, err1, cerr, nexec>>

codecVars == <<hcmd, header, rline, parsed>>

clientVars == <<call, ccmd, cresp, ret, store, next_cas, seen, since, last_set, hung>>

ringVars == <<klass, ring, nodes, trail, routed, ncalls>>

authVars == <<username, password, cstate, links>>

vars == <<poolVars, connVars, codecVars, clientVars, ringVars, authVars>>

\* ------------------------------------------------------------------ bytes
\* Optional[x]: the empty sequence is None, <<x>> is a present x.
None == <<>>
Some(x) == <<x>>

SP == " "
CRLF == <<"\r", "\n">>
Digit == <<"0", "1", "2", "3", "4", "5", "6", "7", "8", "9">>
\* bytes.split() and bytes.rstrip() without argument: ASCII whitespace
Whitespace == {" ", "\t", "\n", "\r"}

IsDigit(ch) == \E i \in 1..10 : Digit[i] = ch
DigitValue(ch) == (CHOOSE i \in 1..10 : Digit[i] = ch) - 1

\* str(n).encode("utf-8") for n >= 0
RECURSIVE DecimalStr(_)
DecimalStr(n) ==
    IF n < 10 THEN <<Digit[n + 1]>>
    ELSE DecimalStr(n \div 10) \o <<Digit[(n % 10) + 1]>>

\* sep.join(parts)
RECURSIVE Join(_, _)
Join(sep, parts) ==
    IF parts = <<>> THEN <<>>
    ELSE IF Len(parts) = 1 THEN parts[1]
    ELSE parts[1] \o sep \o Join(sep, Tail(parts))

\* The printable ASCII characters in code order, from 32 (space) to 126; the double
\* quote, the backslash and the backtick are spelled out.
Printable ==
    <<" ", "!", "QUOTE", "#", "$", "%", "&", "'", "(", ")", "*", "+", ",", "-", ".", "/",
      "0", "1", "2", "3", "4", "5", "6", "7", "8", "9", ":", ";", "<", "=", ">", "?",
      "@", "A", "B", "C", "D", "E", "F", "G", "H", "I", "J", "K", "L", "M", "N", "O",
      "P", "Q", "R", "S", "T", "U", "V", "W", "X", "Y", "Z", "[", "BACKSLASH", "]", "^", "_",
      "BACKTICK", "a", "b", "c", "d", "e", "f", "g", "h", "i", "j", "k", "l", "m", "n", "o",
      "p", "q", "r", "s", "t", "u", "v", "w", "x", "y", "z", "{", "|", "}", "~">>

\* b[0] of a bytes object: the integer value of the byte
Ord(ch) ==
    IF ch = "\t" THEN 9
    ELSE IF ch = "\n" THEN 10
    ELSE IF ch = "\r" THEN 13
    ELSE 31 + (CHOOSE i \in 1..Len(Printable) : Printable[i] = ch)

\* str.isdigit(): non-empty and every character a digit
StrIsDigit(s) == s # <<>> /\ \A i \in DOMAIN s : IsDigit(s[i])

\* line.split(): the maximal runs of non-whitespace bytes
RECURSIVE SplitFrom(_, _, _)
SplitFrom(line, i, cur) ==
    IF i > Len(line) THEN (IF cur = <<>> THEN <<>> ELSE <<cur>>)
    ELSE IF line[i] \in Whitespace
         THEN (IF cur = <<>> THEN <<>> ELSE <<cur>>) \o SplitFrom(line, i + 1, <<>>)
         ELSE SplitFrom(line, i + 1, Append(cur, line[i]))
Split(line) == SplitFrom(line, 1, <<>>)

\* bytes.lstrip(chars): drop leading bytes that are in the set chars
RECURSIVE LStrip(_, _)
LStrip(s, chars) ==
    IF s # <<>> /\ s[1] \in chars THEN LStrip(Tail(s), chars) ELSE s

\* bytes.rstrip(): drop trailing whitespace
RECURSIVE RStrip(_)
RStrip(s) ==
    IF s # <<>> /\ s[Len(s)] \in Whitespace THEN RStrip(SubSeq(s, 1, Len(s) - 1)) ELSE s

\* int(token) of a bytes token without whitespace or underscores: an optional sign
\* and decimal digits, otherwise ValueError.
IsIntLiteral(tok) ==
    \/ StrIsDigit(tok)
    \/ tok # <<>> /\ tok[1] \in {"+", "-"} /\ StrIsDigit(Tail(tok))
RECURSIVE DigitsValue(_)
DigitsValue(ds) ==
    IF ds = <<>> THEN 0
    ELSE 10 * DigitsValue(SubSeq(ds, 1, Len(ds) - 1)) + DigitValue(ds[Len(ds)])
IntValue(tok) ==
    IF tok[1] = "-" THEN 0 - DigitsValue(Tail(tok))
    ELSE IF tok[1] = "+" THEN DigitsValue(Tail(tok))
    ELSE DigitsValue(tok)

\* UTF-8: e_acute is the one character here whose encoding is not itself.
Utf8(ch) == IF ch = "e_acute" THEN <<"C3", "A9">> ELSE <<ch>>
\* str.encode()
RECURSIVE Encode(_)
Encode(text) == IF text = <<>> THEN <<>> ELSE Utf8(Head(text)) \o Encode(Tail(text))
\* bytes.decode("utf-8")
RECURSIVE Decode(_)
Decode(b) ==
    IF b = <<>> THEN [ok |-> <<>>]
    ELSE LET lead == b[1] = "C3" /\ Len(b) >= 2 /\ b[2] = "A9"
             used == IF lead THEN 2 ELSE 1
             r == Decode(SubSeq(b, used + 1, Len(b)))
         IN IF ~lead /\ b[1] \in {"C3", "A9"} THEN [raised |-> "UnicodeDecodeError"]
            ELSE IF "raised" \in DOMAIN r THEN r
            ELSE [ok |-> << IF lead THEN "e_acute" ELSE b[1] >> \o r.ok]

\* ------------------------------------------------------------------ meta codec
MetaCommand(cm, key, datalen, flags, value) ==
    [cm |-> cm, key |-> key, datalen |-> datalen, flags |-> flags, value |-> value]

MetaResult(rc, datalen, flags, value) ==
    [rc |-> rc, datalen |-> datalen, flags |-> flags, value |-> value]

\* An exception: its type and, for MemcacheError, its message.
Exc(type, msg) == [type |-> type, msg |-> msg]
NoErr == Exc("none", <<>>)

\* MetaCommand.dump_header: b" ".join([cm, key, (datalen)] + flags + [b"\r\n"])
dump_header(c) ==
    IF c.datalen = None
    THEN Join(<<SP>>, <<c.cm, c.key>> \o c.flags \o <<CRLF>>)
    ELSE Join(<<SP>>, <<c.cm, c.key, DecimalStr(c.datalen[1])>> \o c.flags \o <<CRLF>>)

ClientErrorTok == <<"C", "L", "I", "E", "N", "T", "_", "E", "R", "R", "O", "R">>
VA == <<"V", "A">>
MissingDatalen == Exc("MemcacheError", <<"m", "i", "s", "s", "i", "n", "g", " ",
                                         "d", "a", "t", "a", "l", "e", "n">>)

\* MetaResult.load_header: the MetaResult (ok) or the exception (raised) the call
\* ends with.
load_header(line) ==
    LET parts == Split(line) IN
    IF parts = <<>> THEN [raised |-> Exc("IndexError", <<>>)]
    ELSE IF parts[1] = ClientErrorTok
    THEN [raised |-> Exc("MemcacheError",
                         RStrip(LStrip(line, {ClientErrorTok[i] : i \in DOMAIN ClientErrorTok}
                                             \cup {SP})))]
    ELSE IF Len(parts) > 1
    THEN \* str(parts[1][0]).isdigit(): parts[1][0] is the integer value of the first
         \* byte of the second token (sequences here count from 1)
         IF StrIsDigit(DecimalStr(Ord(parts[2][1])))
         THEN IF IsIntLiteral(parts[2])
              THEN [ok |-> MetaResult(parts[1], Some(IntValue(parts[2])),
                                      SubSeq(parts, 3, Len(parts)), None)]
              ELSE [raised |-> Exc("ValueError", <<>>)]
         ELSE [ok |-> MetaResult(parts[1], None, Tail(parts), None)]
    ELSE [ok |-> MetaResult(parts[1], None, <<>>, None)]


\* ------------------------------------------------------------------ connection
\* `if command.value:` is true for a value that is present and not empty.
Truthy(v) == v # None /\ v[1] # <<>>

\* connection.py:73-75 / async_connection.py:68-70: what one attempt writes.
WireBytes(c) ==
    dump_header(c) \o (IF Truthy(c.value) THEN c.value[1] \o CRLF ELSE <<>>)

RetryableAny(e) == e.type # "none"
\* connection.py:67 / async_connection.py:60
\* except (IndexError, ConnectionResetError, BrokenPipeError)
Retryable(e) == e.type \in {"IndexError", "ConnectionResetError", "BrokenPipeError"}

\* connection.py:65-70: the except clause guards the first call only; the second
\* call is outside any try.
MayRetry(a, e) == a = 1 /\ Retryable(e)

BodyBytesNoCrlf(n) == n
\* connection.py:85-86: read(datalen), then read(2)
BodyBytes(n) == n + 2

\* connection.py:82  if result.rc == b"VA"
ReadsBody(rc) == rc = VA

\* connection.py:80  stream.readline(): up to and including the first "\n"
ReadLine(buf) ==
    IF \E i \in DOMAIN buf : buf[i] = "\n"
    THEN LET i == CHOOSE k \in DOMAIN buf :
                      buf[k] = "\n" /\ \A j \in 1..(k - 1) : buf[j] # "\n"
         IN [found |-> TRUE, line |-> SubSeq(buf, 1, i), rest |-> SubSeq(buf, i + 1, Len(buf))]
    ELSE [found |-> FALSE, line |-> buf, rest |-> <<>>]

IsCrlfAt(buf, i) == i < Len(buf) /\ buf[i] = "\r" /\ buf[i + 1] = "\n"
\* async_connection.py:74  reader.receive_until(b"\r\n"): up to the first CRLF,
\* which is dropped
AsyncReadLine(buf) ==
    IF \E i \in DOMAIN buf : IsCrlfAt(buf, i)
    THEN LET i == CHOOSE k \in DOMAIN buf :
                      IsCrlfAt(buf, k) /\ \A j \in 1..(k - 1) : ~IsCrlfAt(buf, j)
         IN [found |-> TRUE, line |-> SubSeq(buf, 1, i - 1),
             rest |-> SubSeq(buf, i + 2, Len(buf))]
    ELSE [found |-> FALSE, line |-> buf, rest |-> <<>>]

\* The exceptions of _connect(): the TCP connect is refused, or _auth() got a line
\* other than STORED and raises MemcacheError(line).
ConnectRefused == Exc("ConnectionRefusedError", <<>>)
AuthFailed == Exc("MemcacheError", <<"E", "R", "R", "O", "R">>)
ConnectOutcomes(a) == {"ok", "refused"} \cup (IF a THEN {"auth_failed"} ELSE {})

\* What a write or flush on a dead link may raise: the socket's own errors in the
\* blocking variant; in the cooperative one anyio raises its BrokenResourceError in
\* their place.
WriteErrors(v) ==
    IF v = "blocking"
    THEN {Exc("ConnectionResetError", <<>>), Exc("BrokenPipeError", <<>>),
          Exc("TimeoutError", <<>>)}
    ELSE {Exc("BrokenResourceError", <<>>)}

\* What a read raises on a reset link: the socket's own error in the blocking
\* variant, anyio's BrokenResourceError in the cooperative one.
ResetError(v) ==
    IF v = "blocking" THEN Exc("ConnectionResetError", <<>>)
    ELSE Exc("BrokenResourceError", <<>>)
\* anyio's receive_until / receive_exactly at end of stream
IncompleteRead == Exc("IncompleteRead", <<>>)

\* ---- the server ----
NoResult == MetaResult(<<>>, None, <<>>, None)
Reply(kind, res, bytes, after) ==
    [kind |-> kind, res |-> res, bytes |-> bytes, after |-> after]

\* A well-formed response on the wire: rc [SP datalen] (SP flag)* CRLF [payload CRLF]
EncodeReply(r) ==
    Join(<<SP>>, <<r.rc>>
                 \o (IF r.datalen = None THEN <<>> ELSE <<DecimalStr(r.datalen[1])>>)
                 \o r.flags)
    \o CRLF
    \o (IF r.value = None THEN <<>> ELSE r.value[1] \o CRLF)

HD == <<"H", "D">>
EN == <<"E", "N">>
WellFormedResults ==
    { MetaResult(HD, None, <<>>, None),
      MetaResult(EN, None, <<>>, None),
      MetaResult(HD, None, << <<"c", "1">> >>, None),
      MetaResult(VA, Some(1), << <<"f", "0">> >>, Some(<<"a">>)),
      MetaResult(VA, Some(2), << <<"f", "0">> >>, Some(CRLF)),
      MetaResult(VA, Some(0), <<>>, Some(<<>>)) }

ServerReplies ==
    { Reply("ok", r, EncodeReply(r), "open") : r \in WellFormedResults }
    \cup
    { Reply("client_error", NoResult, ClientErrorTok \o <<" ", "b", "a", "d">> \o CRLF, "open"),
      Reply("no_datalen", NoResult, VA \o CRLF, "open"),
      Reply("blank", NoResult, CRLF, "open"),
      Reply("eof", NoResult, <<>>, "eof"),
      Reply("reset", NoResult, <<>>, "reset"),
      Reply("truncated", NoResult, VA \o <<" ", "2">> \o CRLF \o <<"a">>, "eof"),
      Reply("bad_trailer", NoResult, VA \o <<" ", "1">> \o CRLF \o <<"a", "x", "y">>, "open") }

\* The server has a whole command once the header's data block, datalen bytes and
\* CRLF, has arrived; until then it waits and sends nothing.
CommandComplete(c, wire) ==
    c.datalen = None \/ Len(wire) >= Len(dump_header(c)) + c.datalen[1] + 2

\* ---- the commands callers execute ----
ConnCommands ==
    { MetaCommand(<<"m", "g">>, <<"k">>, None, << <<"v">> >>, None),
      MetaCommand(<<"m", "d">>, <<"k">>, None, <<>>, None),
      MetaCommand(<<"m", "s">>, <<"k">>, Some(1), << <<"F", "0">> >>, Some(<<"a">>)),
      MetaCommand(<<"m", "s">>, <<"k">>, Some(0), << <<"F", "0">> >>, Some(<<>>)) }
NoCommand == MetaCommand(<<>>, <<>>, None, <<>>, None)

\* ---- execute_meta_command ----

\* An attempt (a call of _execute_meta_command) ends with exception e.
\* connection.py:67-70: a link-closed error of the first call leads to _connect() and
\* a second call; async_connection.py:60-62: to _connected = False and a second call,
\* which connects first.  Everything else leaves execute_meta_command.
AttemptFails(e) ==
    /\ err1' = IF attempt = 1 THEN e ELSE err1
    /\ IF MayRetry(attempt, e)
       THEN /\ phase' = "connect"
            /\ attempt' = attempt + 1
            /\ connected' = IF variant = "cooperative" THEN FALSE ELSE connected
            /\ UNCHANGED <<cerr, result>>
       ELSE /\ phase' = "done"
            /\ cerr' = e
            /\ UNCHANGED <<attempt, connected, result>>

\* The attempt returns r.
AttemptReturns(r) ==
    /\ phase' = "done"
    /\ result' = Some(r)
    /\ UNCHANGED <<attempt, connected, err1, cerr>>

\* connection.py:64-66 / async_connection.py:57-59,64-66: a caller starts an execute.
\* The cooperative connection connects first when it is not connected.
ConnExecute(c) ==
    /\ phase \in {"ready", "done"}
    /\ nexec < MaxCommands
    /\ nexec' = nexec + 1
    /\ cmd' = c
    /\ attempt' = 1
    /\ sent' = <<>>
    /\ reconnects' = 0
    /\ result' = None
    /\ err1' = NoErr
    /\ cerr' = NoErr
    /\ hdr' = NoResult
    /\ phase' = IF connected THEN "send" ELSE "connect"
    /\ UNCHANGED <<auth, connected, inbuf, link, server_ok, reply>>
    /\ UNCHANGED <<variant, poolVars, codecVars, clientVars, ringVars, authVars>>

\* connection.py:29-33 / async_connection.py:25-29  _connect(), with what came of it.
\* A refused connect leaves the old stream in place; a failed auth leaves the new,
\* unauthenticated one.  Its exception is caught by nothing.
ConnConnect(o) ==
    /\ phase = "connect"
    /\ o \in ConnectOutcomes(auth)
    /\ reconnects' = IF attempt > 1 THEN reconnects + 1 ELSE reconnects
    /\ IF o = "refused"
       THEN UNCHANGED <<inbuf, link, server_ok>>
       ELSE inbuf' = <<>> /\ link' = "open" /\ server_ok' = TRUE
    /\ IF o = "ok"
       THEN /\ phase' = "send"
            /\ connected' = TRUE
            /\ UNCHANGED <<err1, cerr>>
       ELSE /\ phase' = "done"
            /\ cerr' = (IF o = "refused" THEN ConnectRefused ELSE AuthFailed)
            /\ err1' = (IF attempt = 1 THEN cerr' ELSE err1)
            /\ UNCHANGED connected
    /\ UNCHANGED <<auth, attempt, cmd, sent, reply, hdr, result, nexec>>
    /\ UNCHANGED <<variant, poolVars, codecVars, clientVars, ringVars, authVars>>

\* connection.py:73-76 / async_connection.py:68-70: the attempt writes the command.
\* The server, if the link is open and the command is whole, answers with r.
ConnSend(r) ==
    /\ phase = "send"
    /\ r \in ServerReplies
    /\ sent' = Append(sent, WireBytes(cmd))
    /\ phase' = "header"
    /\ IF link = "open" /\ CommandComplete(cmd, WireBytes(cmd))
       THEN /\ inbuf' = inbuf \o r.bytes
            /\ link' = r.after
            /\ server_ok' = (server_ok /\ r.kind = "ok")
            /\ reply' = r.res
       ELSE /\ server_ok' = FALSE
            /\ reply' = NoResult
            /\ UNCHANGED <<inbuf, link>>
    /\ UNCHANGED <<auth, connected, attempt, cmd, reconnects, hdr, result, err1, cerr, nexec>>
    /\ UNCHANGED <<variant, poolVars, codecVars, clientVars, ringVars, authVars>>

\* connection.py:73-76: write() or flush() raises on a link the peer has closed.
ConnSendFails(e) ==
    /\ phase = "send"
    /\ link # "open"
    /\ e \in WriteErrors(variant)
    /\ sent' = Append(sent, WireBytes(cmd))
    /\ AttemptFails(e)
    /\ UNCHANGED <<auth, cmd, reconnects, inbuf, link, server_ok, reply, hdr, nexec>>
    /\ UNCHANGED <<variant, poolVars, codecVars, clientVars, ringVars, authVars>>

\* The header line as the variant reads it, or the exception the read ends with.
\* Blocking: readline() returns what is left (possibly b"") at end of stream.
HeaderRead ==
    LET rl == IF variant = "blocking" THEN ReadLine(inbuf) ELSE AsyncReadLine(inbuf) IN
    IF rl.found THEN [line |-> rl.line, rest |-> rl.rest, raised |-> NoErr]
    ELSE IF link = "reset" THEN [line |-> <<>>, rest |-> <<>>, raised |-> ResetError(variant)]
    ELSE IF variant = "blocking" THEN [line |-> rl.line, rest |-> <<>>, raised |-> NoErr]
    ELSE [line |-> <<>>, rest |-> <<>>, raised |-> IncompleteRead]

\* connection.py:79-88 / async_connection.py:73-83  _receive_meta_result, up to the
\* payload: read the header line, parse it, and decide whether a payload follows.
ConnRecvHeader ==
    /\ phase = "header"
    /\ (IF variant = "blocking" THEN ReadLine(inbuf) ELSE AsyncReadLine(inbuf)).found
       \/ link # "open"
    /\ LET rd == HeaderRead
           loaded == load_header(rd.line)
       IN /\ inbuf' = rd.rest
          /\ IF rd.raised # NoErr
             THEN AttemptFails(rd.raised) /\ UNCHANGED hdr
             ELSE IF "raised" \in DOMAIN loaded
             THEN AttemptFails(loaded.raised) /\ UNCHANGED hdr
             ELSE IF ReadsBody(loaded.ok.rc)
             THEN IF loaded.ok.datalen = None
                  THEN AttemptFails(MissingDatalen) /\ UNCHANGED hdr
                  ELSE /\ phase' = "body"
                       /\ hdr' = loaded.ok
                       /\ UNCHANGED <<attempt, connected, result, err1, cerr>>
             ELSE AttemptReturns(loaded.ok) /\ UNCHANGED hdr
    /\ UNCHANGED <<auth, cmd, sent, reconnects, link, server_ok, reply, nexec>>
    /\ UNCHANGED <<variant, poolVars, codecVars, clientVars, ringVars, authVars>>

\* connection.py:85-86 / async_connection.py:80-81: read the payload and 2 more bytes.
\* Blocking: read(n) returns fewer bytes at end of stream.  Cooperative:
\* receive_exactly raises IncompleteRead there.
ConnRecvBody ==
    /\ phase = "body"
    /\ Len(inbuf) >= BodyBytes(hdr.datalen[1]) \/ link # "open"
    /\ LET n == hdr.datalen[1]
           have == Len(inbuf) >= BodyBytes(n)
           take == IF Len(inbuf) < n THEN Len(inbuf) ELSE n
           used == IF Len(inbuf) < BodyBytes(n) THEN Len(inbuf) ELSE BodyBytes(n)
       IN IF have \/ (variant = "blocking" /\ link = "eof")
          THEN /\ inbuf' = SubSeq(inbuf, used + 1, Len(inbuf))
               /\ AttemptReturns([hdr EXCEPT !.value = Some(SubSeq(inbuf, 1, take))])
          ELSE /\ inbuf' = <<>>
               /\ AttemptFails(IF link = "reset" THEN ResetError(variant) ELSE IncompleteRead)
    /\ UNCHANGED <<auth, cmd, sent, reconnects, link, server_ok, reply, hdr, nexec>>
    /\ UNCHANGED <<variant, poolVars, codecVars, clientVars, ringVars, authVars>>

\* The server closes a link no command is outstanding on (its idle timeout, a
\* restart): the peer sees end of stream, or a reset.
ServerCloses(how) ==
    /\ phase \in {"ready", "done"}
    /\ link = "open"
    /\ how \in {"eof", "reset"}
    /\ link' = how
    /\ UNCHANGED <<auth, connected, phase, attempt, cmd, sent, reconnects, inbuf,
                   server_ok, reply, hdr, result, err1, cerr, nexec>>
    /\ UNCHANGED <<variant, poolVars, codecVars, clientVars, ringVars, authVars>>

ConnInit ==
    /\ hcmd = NoCommand /\ header = <<>>
    /\ rline = <<>> /\ parsed = None
    /\ auth \in BOOLEAN
    /\ connected = (variant = "blocking")
    /\ phase = "ready"
    /\ attempt = 1
    /\ cmd = NoCommand
    /\ sent = <<>>
    /\ reconnects = 0
    /\ inbuf = <<>>
    /\ link = (IF variant = "blocking" THEN "open" ELSE "none")
    /\ server_ok = TRUE
    /\ reply = NoResult
    /\ hdr = NoResult
    /\ result = None
    /\ err1 = NoErr
    /\ cerr = NoErr
    /\ nexec = 0

\* The connection part of a state in which no connection is modelled.
ConnQuiet ==
    /\ hcmd = NoCommand /\ header = <<>>
    /\ rline = <<>> /\ parsed = None
    /\ auth = FALSE
    /\ connected = FALSE
    /\ phase = "ready"
    /\ attempt = 1
    /\ cmd = NoCommand
    /\ sent = <<>>
    /\ reconnects = 0
    /\ inbuf = <<>>
    /\ link = "none"
    /\ server_ok = TRUE
    /\ reply = NoResult
    /\ hdr = NoResult
    /\ result = None
    /\ err1 = NoErr
    /\ cerr = NoErr
    /\ nexec = 0

ConnNext ==
    \/ \E c \in ConnCommands : ConnExecute(c)
    \/ \E o \in {"ok", "refused", "auth_failed"} : ConnConnect(o)
    \/ \E r \in ServerReplies : ConnSend(r)
    \/ \E e \in WriteErrors(variant) : ConnSendFails(e)
    \/ ConnRecvHeader
    \/ ConnRecvBody
    \/ \E how \in {"eof", "reset"} : ServerCloses(how)

\* ------------------------------------------------------------------ connection claims
\* The failures execute_meta_command treats as "the server closed the link".
LinkClosedTypes == {"IndexError", "ConnectionResetError", "BrokenPipeError"}
ConnectErrors == {ConnectRefused, AuthFailed}
Done == phase = "done"

\* What a first attempt ends with when the server has closed the link, in either
\* variant: the three errors execute_meta_command catches, and the two anyio raises
\* for a reset and for an end of stream.
LinkClosedFailures == LinkClosedTypes \cup {"BrokenResourceError", "IncompleteRead"}

\* C6: when the first attempt of an execute failed because the server closed the
\* link, the execute has reconnected exactly once and, unless that reconnect itself
\* failed, has written the same command bytes exactly once more; it never makes a
\* third attempt.
C6_RetryOnce ==
    /\ attempt <= 2 /\ Len(sent) <= 2 /\ reconnects <= 1
    /\ (Done /\ err1.type \in LinkClosedFailures)
          => /\ reconnects = 1
             /\ \/ Len(sent) = 2 /\ sent[2] = sent[1]
                \/ Len(sent) = 1 /\ cerr \in ConnectErrors

C13_PayloadFramingChecked ==
    (Done /\ result # None /\ result[1].rc = VA) => result[1] = reply

\* C9: once an attempt has written a command whose value is present (the empty
\* value included) and waits for the response, it has written the header followed by
\* the value and CRLF.
C9_BodyEmitted ==
    (phase = "header" /\ cmd.value # None)
        => sent[Len(sent)] = dump_header(cmd) \o cmd.value[1] \o CRLF


\* ------------------------------------------------------------------ pool
\* The exception the idle queue raises when it is empty, which connection.py:111 (blocking)
\* or async_connection.py:106 (cooperative) catches.
EmptyError(v) == IF v = "blocking" THEN "queue.Empty" ELSE "asyncio.QueueEmpty"

\* The exception a timed-out wait raises: queue.Queue.get(timeout=) raises queue.Empty,
\* asyncio.wait_for raises asyncio.TimeoutError.
TimeoutError(v) == IF v = "blocking" THEN "queue.Empty" ELSE "asyncio.TimeoutError"

\* The exception a cancelled task finds raised at the suspension point it waits at.
Cancelled == "asyncio.CancelledError"
\* What the with-body may raise: any error of the client, the queue's own empty
\* error (for instance from a nested acquire that timed out), and, where the body
\* of a task suspends, its cancellation.
BodyErrors(v) ==
    {"MemcacheError", EmptyError(v)} \cup (IF v = "cooperative" THEN {Cancelled} ELSE {})

AtCapOffByOne(sz, mx) == mx # 0 /\ sz > mx
AtCapNever(sz, mx) == FALSE
\* `if self._max_size and self._size >= self._max_size`
AtCap(sz, mx) == mx # 0 /\ sz >= mx

DequeuedPeek(q) == q
DequeuedKept(q) == q
\* get_nowait() / get(): the queue after its head was taken.
Dequeued(q) == Tail(q)

\* put(connection)
Enqueued(q, c) == Append(q, c)
PutBackOnRaise(q, c) == Append(q, c)
\* async_connection.py:100-118  an exception leaves the generator at a yield: no
\* statement after the yield runs, the queue stays as it is.
Unreleased(q, c) == q

Held(t) == pc[t] \in {"body_try", "body_handler"}

YieldLost(t, c, where) ==
    /\ pc' = [pc EXCEPT ![t] = "idle"]
    /\ conn' = [conn EXCEPT ![t] = 0]
    /\ err' = [err EXCEPT ![t] = "RuntimeError"]
    /\ thrown' = [thrown EXCEPT ![t] = FALSE]
\* The generator reaches a yield with connection c.  After a throw() the context
\* manager does not accept a second yield: it raises RuntimeError("generator didn't
\* stop after throw()") and the generator is dropped, c with it.
YieldAt(t, c, where) ==
    IF thrown[t]
    THEN /\ pc' = [pc EXCEPT ![t] = "idle"]
         /\ conn' = [conn EXCEPT ![t] = 0]
         /\ err' = [err EXCEPT ![t] = "RuntimeError"]
         /\ thrown' = [thrown EXCEPT ![t] = FALSE]
    ELSE /\ pc' = [pc EXCEPT ![t] = where]
         /\ conn' = [conn EXCEPT ![t] = c]
         /\ UNCHANGED <<err, thrown>>

\* An exception e leaves the generator: the with statement re-raises it.
Propagate(t, e) ==
    /\ pc' = [pc EXCEPT ![t] = "idle"]
    /\ conn' = [conn EXCEPT ![t] = 0]
    /\ err' = [err EXCEPT ![t] = e]
    /\ thrown' = [thrown EXCEPT ![t] = FALSE]

\* ---- Pool.get, blocking: every statement is a step of its own thread ----

\* connection.py:108-109  connection = self._connections.get_nowait(); yield
PoolGetNowait(t) ==
    /\ UNCHANGED <<connVars, codecVars, clientVars, ringVars, authVars>>
    /\ variant = "blocking" /\ pc[t] = "idle"
    /\ IF connections # <<>>
       THEN /\ connections' = Dequeued(connections)
            /\ pc' = [pc EXCEPT ![t] = "body_try"]
            /\ conn' = [conn EXCEPT ![t] = Head(connections)]
       ELSE /\ pc' = [pc EXCEPT ![t] = "check"]
            /\ UNCHANGED <<connections, conn>>
    /\ err' = [err EXCEPT ![t] = "none"]
    /\ UNCHANGED <<variant, max_size, size, lock, made, thrown>>

\* connection.py:111-112  except queue.Empty: if ... self._size >= self._max_size
PoolCheck(t) ==
    /\ UNCHANGED <<connVars, codecVars, clientVars, ringVars, authVars>>
    /\ variant = "blocking" /\ pc[t] = "check"
    /\ pc' = [pc EXCEPT ![t] = IF AtCap(size, max_size) THEN "wait" ELSE "lock"]
    /\ UNCHANGED <<variant, max_size, size, lock, connections, made, conn, thrown, err>>

\* connection.py:117  with self._lock:
PoolLock(t) ==
    /\ UNCHANGED <<connVars, codecVars, clientVars, ringVars, authVars>>
    /\ variant = "blocking" /\ pc[t] = "lock"
    /\ lock = 0
    /\ lock' = t
    /\ pc' = [pc EXCEPT ![t] = "incr"]
    /\ UNCHANGED <<variant, max_size, size, connections, made, conn, thrown, err>>

\* connection.py:118  self._size += 1, and the lock is released
PoolIncr(t) ==
    /\ UNCHANGED <<connVars, codecVars, clientVars, ringVars, authVars>>
    /\ variant = "blocking" /\ pc[t] = "incr"
    /\ size' = size + 1
    /\ lock' = 0
    /\ pc' = [pc EXCEPT ![t] = "create"]
    /\ UNCHANGED <<variant, max_size, connections, made, conn, thrown, err>>

\* connection.py:119-120  connection = self._create_connection(); yield
\* Connection.__init__ connects and authenticates, so it may raise.
PoolCreate(t) ==
    /\ UNCHANGED <<connVars, codecVars, clientVars, ringVars, authVars>>
    /\ variant = "blocking" /\ pc[t] = "create"
    /\ \/ /\ made' = made + 1
          /\ YieldAt(t, made + 1, "body_handler")
       \/ /\ Propagate(t, "OSError")
          /\ UNCHANGED made
    /\ UNCHANGED <<variant, max_size, size, lock, connections>>

\* connection.py:113-114  connection = self._connections.get(timeout=...); yield
PoolWaitGet(t) ==
    /\ UNCHANGED <<connVars, codecVars, clientVars, ringVars, authVars>>
    /\ variant = "blocking" /\ pc[t] = "wait"
    /\ connections # <<>>
    /\ connections' = Dequeued(connections)
    /\ YieldAt(t, Head(connections), "body_handler")
    /\ UNCHANGED <<variant, max_size, size, lock, made>>

\* connection.py:113  the timeout elapses with the queue still empty: queue.Empty,
\* raised inside the except clause, leaves the generator.
PoolTimeout(t) ==
    /\ UNCHANGED <<connVars, codecVars, clientVars, ringVars, authVars>>
    /\ variant = "blocking" /\ pc[t] = "wait"
    /\ connections = <<>>
    /\ Propagate(t, TimeoutError(variant))
    /\ UNCHANGED <<variant, max_size, size, lock, connections, made>>

\* connection.py:110,115,121  the body ends normally: self._connections.put(connection)
PoolBodyReturn(t) ==
    /\ UNCHANGED <<connVars, codecVars, clientVars, ringVars, authVars>>
    /\ variant = "blocking" /\ Held(t)
    /\ connections' = Enqueued(connections, conn[t])
    /\ pc' = [pc EXCEPT ![t] = "idle"]
    /\ conn' = [conn EXCEPT ![t] = 0]
    /\ UNCHANGED <<variant, max_size, size, lock, made, thrown, err>>

\* The body raises e: it is thrown into the generator at its yield.  At line 109 the
\* yield is inside the try, so queue.Empty is caught by line 111 and the generator
\* goes on to line 112; every other case leaves the generator.  No path runs put().
PoolBodyRaise(t, e) ==
    /\ UNCHANGED <<connVars, codecVars, clientVars, ringVars, authVars>>
    /\ variant = "blocking" /\ Held(t)
    /\ IF pc[t] = "body_try" /\ e = EmptyError(variant)
       THEN /\ pc' = [pc EXCEPT ![t] = "check"]
            /\ conn' = [conn EXCEPT ![t] = 0]
            /\ thrown' = [thrown EXCEPT ![t] = TRUE]
            /\ UNCHANGED err
       ELSE Propagate(t, e)
    /\ UNCHANGED <<variant, max_size, size, lock, connections, made>>

\* ---- AsyncPool.get, cooperative: a task runs until it suspends ----

\* async_connection.py:106-118 from the except clause to the next suspension.
\* `async with self._lock` does not suspend: asyncio.Lock.acquire returns at once
\* when the lock is free, and no task suspends while holding it.
\* AsyncConnection.__init__ opens nothing, so creation cannot fail.
AsyncFromCheck(t, isThrown) ==
    IF AtCap(size, max_size)
    THEN /\ pc' = [pc EXCEPT ![t] = "wait"]
         /\ conn' = [conn EXCEPT ![t] = 0]
         /\ thrown' = [thrown EXCEPT ![t] = isThrown]
         /\ UNCHANGED <<size, made, err>>
    ELSE /\ size' = size + 1
         /\ made' = made + 1
         /\ IF isThrown
            THEN /\ pc' = [pc EXCEPT ![t] = "idle"]
                 /\ conn' = [conn EXCEPT ![t] = 0]
                 /\ err' = [err EXCEPT ![t] = "RuntimeError"]
                 /\ thrown' = [thrown EXCEPT ![t] = FALSE]
            ELSE /\ pc' = [pc EXCEPT ![t] = "body_handler"]
                 /\ conn' = [conn EXCEPT ![t] = made + 1]
                 /\ thrown' = [thrown EXCEPT ![t] = FALSE]
                 /\ UNCHANGED err

\* async_connection.py:100-118  entering `async with pool.get()`
AsyncPoolGet(t) ==
    /\ UNCHANGED <<connVars, codecVars, clientVars, ringVars, authVars>>
    /\ variant = "cooperative" /\ pc[t] = "idle"
    /\ IF connections # <<>>
       THEN /\ connections' = Dequeued(connections)
            /\ pc' = [pc EXCEPT ![t] = "body_try"]
            /\ conn' = [conn EXCEPT ![t] = Head(connections)]
            /\ err' = [err EXCEPT ![t] = "none"]
            /\ UNCHANGED <<size, made, thrown>>
       ELSE /\ AsyncFromCheck(t, FALSE)
            /\ UNCHANGED connections
    /\ UNCHANGED <<variant, max_size, lock>>

\* async_connection.py:108-111  the awaited get() returns a connection; yield
AsyncPoolWaitGet(t) ==
    /\ UNCHANGED <<connVars, codecVars, clientVars, ringVars, authVars>>
    /\ variant = "cooperative" /\ pc[t] = "wait"
    /\ connections # <<>>
    /\ connections' = Dequeued(connections)
    /\ YieldAt(t, Head(connections), "body_handler")
    /\ UNCHANGED <<variant, max_size, size, lock, made>>

\* async_connection.py:108-110  asyncio.wait_for gives up: asyncio.TimeoutError
AsyncPoolTimeout(t) ==
    /\ UNCHANGED <<connVars, codecVars, clientVars, ringVars, authVars>>
    /\ variant = "cooperative" /\ pc[t] = "wait"
    /\ connections = <<>>
    /\ Propagate(t, TimeoutError(variant))
    /\ UNCHANGED <<variant, max_size, size, lock, connections, made>>

\* async_connection.py:105,112,118  await self._connections.put(connection); the
\* queue is unbounded, so put() does not suspend.
AsyncPoolBodyReturn(t) ==
    /\ UNCHANGED <<connVars, codecVars, clientVars, ringVars, authVars>>
    /\ variant = "cooperative" /\ Held(t)
    /\ connections' = Enqueued(connections, conn[t])
    /\ pc' = [pc EXCEPT ![t] = "idle"]
    /\ conn' = [conn EXCEPT ![t] = 0]
    /\ UNCHANGED <<variant, max_size, size, lock, made, thrown, err>>

\* The body raises e (athrow into the generator).  asyncio.QueueEmpty at the yield
\* of line 104 is caught by line 106 and the generator runs on to its next suspension.
AsyncPoolBodyRaise(t, e) ==
    /\ UNCHANGED <<connVars, codecVars, clientVars, ringVars, authVars>>
    /\ variant = "cooperative" /\ Held(t)
    /\ IF pc[t] = "body_try" /\ e = EmptyError(variant)
       THEN AsyncFromCheck(t, TRUE)
       ELSE /\ Propagate(t, e)
            /\ UNCHANGED <<size, made>>
    /\ connections' = Unreleased(connections, conn[t])
    /\ UNCHANGED <<variant, max_size, lock>>

PoolInit ==
    /\ variant \in {"blocking", "cooperative"}
    /\ max_size \in 1..MaxPoolSize
    /\ size = 0
    /\ lock = 0
    /\ connections = <<>>
    /\ made = 0
    /\ pc = [t \in Callers |-> "idle"]
    /\ conn = [t \in Callers |-> 0]
    /\ thrown = [t \in Callers |-> FALSE]
    /\ err = [t \in Callers |-> "none"]

PoolNext ==
    \E t \in Callers :
        \/ PoolGetNowait(t)
        \/ PoolCheck(t)
        \/ PoolLock(t)
        \/ PoolIncr(t)
        \/ PoolCreate(t)
        \/ PoolWaitGet(t)
        \/ PoolTimeout(t)
        \/ PoolBodyReturn(t)
        \/ \E e \in BodyErrors(variant) : PoolBodyRaise(t, e)
        \/ AsyncPoolGet(t)
        \/ AsyncPoolWaitGet(t)
        \/ AsyncPoolTimeout(t)
        \/ AsyncPoolBodyReturn(t)
        \/ \E e \in BodyErrors(variant) : AsyncPoolBodyRaise(t, e)

\* ------------------------------------------------------------------ pool claims
InQueue(q, c) == \E i \in DOMAIN q : q[i] = c

\* C1: blocking Pool, any interleaving of threads: the size counter never exceeds
\* max_size.
C1_PoolSizeWithinMax == variant = "blocking" => size <= max_size

\* C2: cooperative AsyncPool, tasks switching only at suspension points: the size
\* counter never exceeds max_size.
C2_AsyncPoolSizeWithinMax == variant = "cooperative" => size <= max_size

\* The pool is full and a task was turned away to wait for an idle connection.
C2_Witness ==
    /\ variant = "cooperative"
    /\ size = max_size
    /\ \E t \in Callers : pc[t] = "wait"
    /\ \E t \in Callers : Held(t)

\* C3: whenever a caller leaves the with-body of get(), normally or by an exception,
\* its connection is put back on the idle queue or the size counter is decremented.
C3_ReleaseUnconditional ==
    [][\A t \in Callers :
          (Held(t) /\ pc'[t] \notin {"body_try", "body_handler"})
              => (InQueue(connections', conn[t]) \/ size' = size - 1)]_vars

\* C4: a connection is held by at most one caller, and a held connection is not on
\* the idle queue (so nobody else can be handed it); the queue holds no connection
\* twice; a caller in its with-body holds a connection the pool created.
C4_ExclusiveCheckout ==
    /\ \A t1, t2 \in Callers : (t1 # t2 /\ conn[t1] # 0) => conn[t1] # conn[t2]
    /\ \A t \in Callers : conn[t] # 0 => ~InQueue(connections, conn[t])
    /\ \A i, j \in DOMAIN connections : i # j => connections[i] # connections[j]
    /\ \A t \in Callers : Held(t) <=> conn[t] \in 1..made

\* One caller was handed a connection by dequeuing it while another caller holds one.
C4_Witness ==
    \E t1, t2 \in Callers :
        /\ t1 # t2
        /\ pc[t1] = "body_try"
        /\ Held(t2)

\* The pool has max_size 1, its single connection is held by another caller, and
\* caller t is acquiring (or about to).
CapCase(t) ==
    /\ max_size = 1 /\ size = 1 /\ made = 1
    /\ connections = <<>>
    /\ \E h \in Callers \ {t} : Held(h)
    /\ pc[t] \in {"idle", "check", "wait"}

\* C5: with pool_size = 1 and the single connection held and not released, every
\* step of a second acquire obtains no connection and creates none, and the acquire
\* can end only with the pool-timeout error.
C5_PoolCapTimeout ==
    [][\A t \in Callers :
          (CapCase(t) /\ pc'[t] # pc[t])
              => /\ conn'[t] = 0
                 /\ size' = size /\ made' = made
                 /\ pc'[t] \in {"check", "wait", "idle"}
                 /\ pc'[t] = "idle" => err'[t] = TimeoutError(variant)]_vars

\* The second acquire has ended with the timeout error while the first caller still
\* holds the only connection.
C5_Witness ==
    /\ max_size = 1 /\ size = 1 /\ made = 1
    /\ \E h, t \in Callers :
          /\ h # t
          /\ Held(h)
          /\ pc[t] = "idle"
          /\ err[t] = TimeoutError(variant)


\* The pool part of a state in which no pool is modelled; variant is left open.
PoolQuiet ==
    /\ max_size = 1
    /\ size = 0
    /\ lock = 0
    /\ connections = <<>>
    /\ made = 0
    /\ pc = [t \in Callers |-> "idle"]
    /\ conn = [t \in Callers |-> 0]
    /\ thrown = [t \in Callers |-> FALSE]
    /\ err = [t \in Callers |-> "none"]

\* The client part of a state in which no client call is modelled.
NoCall == [api |-> "none", by |-> 0, op |-> "none", value |-> None, opt |-> None,
           tok |-> None, pre |-> None]
NoOutcome == [kind |-> "none"]
ClientQuiet ==
    /\ call = NoCall
    /\ ccmd = NoCommand
    /\ cresp = NoOutcome
    /\ ret = NoOutcome
    /\ store = None
    /\ next_cas = 1
    /\ seen = [t \in Callers |-> None]
    /\ since = [t \in Callers |-> None]
    /\ last_set = None
    /\ hung = {}
    /\ klass = "none"
    /\ ring = <<>>
    /\ nodes = <<>>
    /\ trail = <<>>
    /\ routed = <<>>
    /\ ncalls = 0

AuthQuiet == username = None /\ password = None /\ cstate = "none" /\ links = <<>>

\* Callers sharing one pool.
InitPool == PoolInit /\ ConnQuiet /\ ClientQuiet /\ AuthQuiet
SpecPool == InitPool /\ [][PoolNext]_vars

\* One connection executing commands against a server.
InitConn == variant \in {"blocking", "cooperative"} /\ PoolQuiet /\ ConnInit /\ ClientQuiet /\ AuthQuiet
SpecConn == InitConn /\ [][ConnNext]_vars

\* ------------------------------------------------------------------ codec on inputs
Tokens == { <<"v">>, <<"F", "0">>, <<"T", "1", "0">> }
RECURSIVE SeqsUpTo(_, _)
SeqsUpTo(S, n) ==
    IF n = 0 THEN { <<>> }
    ELSE SeqsUpTo(S, n - 1) \cup { Append(q, x) : q \in SeqsUpTo(S, n - 1), x \in S }

CodecCommands ==
    { MetaCommand(cm, key, dl, fl, None) :
        cm \in { <<"m", "g">>, <<"m", "s">>, <<"m", "d">>, <<"m", "a">> },
        key \in { <<"k">>, <<"f", "o", "o">> },
        dl \in { None, Some(0), Some(3), Some(12) },
        fl \in SeqsUpTo(Tokens, MaxFlags) }

\* No codec function has been called yet; a behaviour holds one call.
CodecIdle == hcmd = NoCommand /\ rline = <<>>

\* meta_command.py:31-37  a caller calls dump_header on command c
CodecDump(c) ==
    /\ CodecIdle
    /\ hcmd' = c
    /\ header' = dump_header(c)
    /\ rline' = <<>> /\ parsed' = None
    /\ UNCHANGED <<poolVars, connVars, clientVars, ringVars, authVars>>

\* Tokens a response header carries after rc: datalen values and flags.
ResponseTokens ==
    { <<"5">>, <<"1", "2">>, <<"t", "2", "0">>, <<"c", "1", "2", "3">>,
      <<"f", "1", "6">>, <<"c", "9", "9", "9">> }
ResponseCodes == { <<"H", "D">>, VA, <<"E", "N">>, <<"N", "S">> }
\* What may follow "CLIENT_ERROR " in a response line.
ClientErrorTexts ==
    { <<"b", "a", "d", " ", "d", "a", "t", "a">>,
      <<"T", "o", "o", " ", "l", "o", "n", "g">>,
      <<"E", "R", "R", "O", "R", " ", "x">>,
      <<"l", "i", "n", "e", " ", "f", "o", "r", "m", "a", "t", " ">>,
      <<" ", "k", "e", "y">>,
      <<>> }
ResponseLines ==
    { Join(<<SP>>, <<rc>> \o toks) \o CRLF :
        rc \in ResponseCodes, toks \in SeqsUpTo(ResponseTokens, MaxFlags) }
    \cup { ClientErrorTok \o <<SP>> \o t \o CRLF : t \in ClientErrorTexts }

\* meta_command.py:47-68  a caller calls load_header on line l
CodecLoad(l) ==
    /\ CodecIdle
    /\ rline' = l
    /\ parsed' = Some(load_header(l))
    /\ hcmd' = NoCommand /\ header' = <<>>
    /\ UNCHANGED <<poolVars, connVars, clientVars, ringVars, authVars>>

CodecNext ==
    \/ \E c \in CodecCommands : CodecDump(c)
    \/ \E l \in ResponseLines : CodecLoad(l)

InitCodec == variant = "blocking" /\ PoolQuiet /\ ConnQuiet /\ ClientQuiet /\ AuthQuiet
\* The codec's pure functions applied to inputs.
SpecCodec == InitCodec /\ [][CodecNext]_vars

\* ------------------------------------------------------------------ codec claims
\* cm SP key [SP datalen] (SP flag)* CRLF
HeaderGrammar(c) ==
    Join(<<SP>>, <<c.cm, c.key>>
                 \o (IF c.datalen = None THEN <<>> ELSE <<DecimalStr(c.datalen[1])>>)
                 \o c.flags) \o CRLF

\* C10: dump_header returns exactly cm SP key [SP datalen] (SP flag)* CRLF: single
\* spaces between tokens, datalen iff set, flags in the given order, CRLF directly
\* after the last token.
C10_HeaderEncoding == hcmd # NoCommand => header = HeaderGrammar(hcmd)

\* bytes.strip() of the spec's "stripped": without leading and trailing whitespace
RECURSIVE LStripWs(_)
LStripWs(s) == IF s # <<>> /\ s[1] \in Whitespace THEN LStripWs(Tail(s)) ELSE s

\* The decoding the header grammar prescribes for a line that is not CLIENT_ERROR:
\* rc is the first token; the second token is datalen iff its first byte is an ASCII
\* digit, and the tokens after it are the flags; otherwise every token after rc is a
\* flag.
HeaderDecoding(line) ==
    LET parts == Split(line) IN
    IF Len(parts) > 1 /\ IsDigit(parts[2][1])
    THEN MetaResult(parts[1], Some(IntValue(parts[2])), SubSeq(parts, 3, Len(parts)), None)
    ELSE MetaResult(parts[1], None, Tail(parts), None)

IsClientErrorLine(line) ==
    Len(line) > Len(ClientErrorTok)
    /\ SubSeq(line, 1, Len(ClientErrorTok) + 1) = ClientErrorTok \o <<SP>>

\* C11: load_header of a response line returns rc, datalen and flags as the header
\* grammar prescribes: the second token is datalen iff its first byte is a digit.
C11_HeaderDecoding ==
    (parsed # None /\ ~IsClientErrorLine(rline))
        => parsed[1] = [ok |-> HeaderDecoding(rline)]

\* C12: load_header of a line that starts with "CLIENT_ERROR " raises MemcacheError
\* whose message is the rest of the line after that prefix, stripped of surrounding
\* whitespace.
C12_ClientErrorMessage ==
    (parsed # None /\ IsClientErrorLine(rline))
        => parsed[1] = [raised |->
              Exc("MemcacheError",
                  RStrip(LStripWs(SubSeq(rline, Len(ClientErrorTok) + 2, Len(rline)))))]

\* ------------------------------------------------------------------ value codec
\* serialize.dump / serialize.load on raw bytes and text: a value is its type and
\* its encoded bytes; the client flag names the type.
FLAG_BYTES == 0
FLAG_STR == 1
Values ==
    { [t |-> "bytes", d |-> <<>>], [t |-> "bytes", d |-> <<"a">>],
      [t |-> "str", d |-> <<>>], [t |-> "str", d |-> <<"b", "c">>] }
dump(v) == <<v.d, IF v.t = "bytes" THEN FLAG_BYTES ELSE FLAG_STR>>
load(raw, flag) ==
    [t |-> IF flag = FLAG_BYTES THEN "bytes" ELSE IF flag = FLAG_STR THEN "str" ELSE "other",
     d |-> raw]

\* ------------------------------------------------------------------ MetaClient
\* The key every call is about.
K == <<"k">>
MS == <<"m", "s">>
MG == <<"m", "g">>
MD == <<"m", "d">>
NS == <<"N", "S">>
EX == <<"E", "X">>
NF == <<"N", "F">>

\* b"X%d" % n
Fmt(prefix, n) == <<prefix>> \o DecimalStr(n)
OptFlagTruthy(prefix, x) == IF x = None \/ x[1] = 0 THEN <<>> ELSE << Fmt(prefix, x[1]) >>
\* `if x is not None: flags.append(b"X%d" % x)`
OptFlag(prefix, x) == IF x = None THEN <<>> ELSE << Fmt(prefix, x[1]) >>

\* MetaCommand(cm=b"ms", key=key_bytes, datalen=len(raw_value), flags=flags,
\*             value=raw_value)
StoreCommand(raw, flags) == MetaCommand(MS, K, Some(Len(raw)), flags, Some(raw))

\* How a call ends.
Returned(x) == [kind |-> "returned", val |-> x]
Raised(type) == [kind |-> "raised", val |-> type]
Blocked == [kind |-> "blocked"]

\* meta_client.py:232-251
MetaClient_set(value, expire) ==
    LET d == dump(value) IN
    StoreCommand(d[1], << Fmt("F", d[2]) >> \o OptFlag("T", expire))
\* meta_client.py:255-256
MetaClient_set_result(res) ==
    IF res.rc # HD THEN Raised("MemcacheError") ELSE Returned("None")

\* meta_client.py:266-278, 296-308 (add: ME, replace: MR)
MetaClient_add(mode, value, expire) ==
    LET d == dump(value) IN
    StoreCommand(d[1], << mode, Fmt("F", d[2]) >> \o OptFlag("T", expire))
\* meta_client.py:326-338, 356-368 (append: MA, prepend: MP)
MetaClient_append(mode, value, vivify_ttl) ==
    LET d == dump(value) IN
    StoreCommand(d[1], << mode, Fmt("F", d[2]) >> \o OptFlag("N", vivify_ttl))
StoredAlways(res) == Returned("True")
\* meta_client.py:282-286, 312-316, 342-346, 372-376
MetaClient_add_result(res) ==
    IF res.rc = HD THEN Returned("True")
    ELSE IF res.rc = NS THEN Returned("False")
    ELSE Raised("MemcacheError")

\* meta_client.py:387-399
MetaClient_cas(value, cas_token, expire) ==
    LET d == dump(value) IN
    StoreCommand(d[1], << Fmt("F", d[2]), Fmt("C", cas_token) >> \o OptFlag("T", expire))
CasNeverFalse(res) ==
    IF res.rc = HD THEN Returned("True") ELSE Raised("MemcacheError")
\* meta_client.py:403-407
MetaClient_cas_result(res) ==
    IF res.rc = HD THEN Returned("True")
    ELSE IF res.rc \in {EX, NF} THEN Returned("False")
    ELSE Raised("MemcacheError")

\* meta_client.py:420-425
MetaClient_delete(cas_token) == MetaCommand(MD, K, None, OptFlag("C", cas_token), None)
\* meta_client.py:443-450
MetaClient_invalidate(stale_ttl, cas_token) ==
    MetaCommand(MD, K, None, << <<"I">> >> \o OptFlag("T", stale_ttl) \o OptFlag("C", cas_token),
                None)
DeleteOnlyNF(res) ==
    IF res.rc = HD THEN Returned("True")
    ELSE IF res.rc = NF THEN Returned("False")
    ELSE Raised("MemcacheError")
\* meta_client.py:429-433, 454-458
MetaClient_delete_result(res) ==
    IF res.rc = HD THEN Returned("True")
    ELSE IF res.rc \in {NF, EX} THEN Returned("False")
    ELSE Raised("MemcacheError")

\* ---- calls of MetaClient methods ----
Call(api, by, op, value, opt, tok) ==
    [api |-> api, by |-> by, op |-> op, value |-> value, opt |-> opt, tok |-> tok,
     pre |-> None]

ME == <<"M", "E">>
MR == <<"M", "R">>
MA == <<"M", "A">>
MP == <<"M", "P">>

\* The command a store or delete method of MetaClient builds for call c.
MetaCommandOf(c) ==
    CASE c.op = "set" -> MetaClient_set(c.value[1], c.opt)
      [] c.op = "add" -> MetaClient_add(ME, c.value[1], c.opt)
      [] c.op = "replace" -> MetaClient_add(MR, c.value[1], c.opt)
      [] c.op = "append" -> MetaClient_append(MA, c.value[1], c.opt)
      [] c.op = "prepend" -> MetaClient_append(MP, c.value[1], c.opt)
      [] c.op = "cas" -> MetaClient_cas(c.value[1], c.tok[1], c.opt)
      [] c.op = "delete" -> MetaClient_delete(c.tok)
      [] c.op = "invalidate" -> MetaClient_invalidate(c.opt, c.tok)

\* What the method makes of the execute's end: an exception of the execute leaves
\* the method as it is; a result is mapped by its rc.
MetaOutcome(op, resp) ==
    IF "raised" \in DOMAIN resp THEN Raised(resp.raised.type)
    ELSE CASE op = "set" -> MetaClient_set_result(resp.ok)
           [] op \in {"add", "replace", "append", "prepend"} -> MetaClient_add_result(resp.ok)
           [] op = "cas" -> MetaClient_cas_result(resp.ok)
           [] op \in {"delete", "invalidate"} -> MetaClient_delete_result(resp.ok)

\* Arguments of the calls.
OptInts == { None, Some(0), Some(10) }
CasTokens == { 7 }
StoreCalls ==
    { Call("meta", 1, op, Some(v), o, None) :
        op \in {"set", "add", "replace", "append", "prepend"}, v \in Values, o \in OptInts }
    \cup { Call("meta", 1, "cas", Some(v), o, Some(t)) :
             v \in Values, o \in OptInts, t \in CasTokens }
DeleteCalls ==
    { Call("meta", 1, "delete", None, None, t) : t \in {None} \cup {Some(x) : x \in CasTokens} }
    \cup { Call("meta", 1, "invalidate", None, o, t) :
             o \in OptInts, t \in {None} \cup {Some(x) : x \in CasTokens} }

\* What an execute may end with, whatever the server is: a result with some rc, or
\* the MemcacheError of a CLIENT_ERROR line.
AnswerRcs == { HD, NS, EX, NF, EN, <<"O", "K">> }
Answers ==
    { [ok |-> MetaResult(rc, None, <<>>, None)] : rc \in AnswerRcs }
    \cup { [raised |-> Exc("MemcacheError", <<"b", "a", "d">>)] }

\* A MetaClient method is called and its execute ends with answer a.
MetaCall(c, a) ==
    /\ call = NoCall
    /\ call' = c
    /\ ccmd' = MetaCommandOf(c)
    /\ cresp' = a
    /\ ret' = MetaOutcome(c.op, a)
    /\ UNCHANGED <<store, next_cas, seen, since, last_set, hung>>
    /\ UNCHANGED <<poolVars, connVars, codecVars, ringVars, authVars>>

CallsNext ==
    \/ \E c \in StoreCalls, a \in Answers : MetaCall(c, a)
    \/ \E c \in DeleteCalls, a \in Answers : MetaCall(c, a)

InitCalls == variant = "blocking" /\ PoolQuiet /\ ConnQuiet /\ ClientQuiet /\ AuthQuiet
\* One call of a MetaClient method, answered in every possible way.
SpecCalls == InitCalls /\ [][CallsNext]_vars

\* ---- claims on the methods ----
AnsweredRc(rcs) == "ok" \in DOMAIN cresp /\ cresp.ok.rc \in rcs
ReturnedValue(x) == ret.kind = "returned" /\ ret.val = x
\* flag X<n> when n is given, nothing otherwise
GivenFlag(prefix, x) == IF x = None THEN <<>> ELSE << <<prefix>> \o DecimalStr(x[1]) >>
ClientFlagOf(v) == <<"F">> \o DecimalStr(dump(v)[2])

\* C16: set sends ms with datalen = len(encoded value), F<client_flag> and T<expire>
\* whenever expire is given (0 included); it returns iff rc is HD and raises otherwise.
C16_SetCommandAndResult ==
    call.op = "set" =>
        /\ ccmd = MetaCommand(MS, K, Some(Len(dump(call.value[1])[1])),
                              << ClientFlagOf(call.value[1]) >> \o GivenFlag("T", call.opt),
                              Some(dump(call.value[1])[1]))
        /\ ret.kind = "returned" <=> AnsweredRc({HD})
        /\ ret.kind = "raised" <=> ~AnsweredRc({HD})

\* set was called with expire = 0 and the server answered NS.
C16_Witness ==
    /\ call.op = "set" /\ call.opt = Some(0)
    /\ AnsweredRc({NS}) /\ ret.kind = "raised"

\* C17: add, replace, append and prepend send one ms carrying ME, MR, MA, MP; they
\* return True iff rc is HD, False iff rc is NS, and raise for every other rc.
C17_ConditionalStores ==
    call.op \in {"add", "replace", "append", "prepend"} =>
        /\ ccmd.cm = MS /\ ccmd.key = K
        /\ ccmd.flags[1] = (CASE call.op = "add" -> ME [] call.op = "replace" -> MR
                              [] call.op = "append" -> MA [] call.op = "prepend" -> MP)
        /\ ccmd.value = Some(dump(call.value[1])[1])
        /\ ReturnedValue("True") <=> AnsweredRc({HD})
        /\ ReturnedValue("False") <=> AnsweredRc({NS})
        /\ ret.kind = "raised" <=> ~AnsweredRc({HD, NS})

\* prepend was answered NS and returned False.
C17_Witness == call.op = "prepend" /\ AnsweredRc({NS}) /\ ReturnedValue("False")

\* C18: cas sends one ms with F<flag>, C<cas_token> and T<expire> when expire is
\* given; it returns True iff rc is HD, False iff rc is EX or NF, and raises for every
\* other rc.
C18_CasCommandAndResult ==
    call.op = "cas" =>
        /\ ccmd = MetaCommand(MS, K, Some(Len(dump(call.value[1])[1])),
                              << ClientFlagOf(call.value[1]), <<"C">> \o DecimalStr(call.tok[1]) >>
                                  \o GivenFlag("T", call.opt),
                              Some(dump(call.value[1])[1]))
        /\ ReturnedValue("True") <=> AnsweredRc({HD})
        /\ ReturnedValue("False") <=> AnsweredRc({EX, NF})
        /\ ret.kind = "raised" <=> ~AnsweredRc({HD, EX, NF})

\* cas with an expire was answered EX and returned False.
C18_Witness ==
    call.op = "cas" /\ call.opt = Some(10) /\ AnsweredRc({EX}) /\ ReturnedValue("False")

\* C19: delete sends one md with C<cas_token> when given; invalidate sends one md with
\* I, T<stale_ttl> when given and C<cas_token> when given; both return True iff rc is
\* HD, False iff rc is NF or EX, and raise for every other rc.
C19_DeleteAndInvalidate ==
    call.op \in {"delete", "invalidate"} =>
        /\ ccmd = MetaCommand(MD, K, None,
                              (IF call.op = "invalidate"
                               THEN << <<"I">> >> \o GivenFlag("T", call.opt) ELSE <<>>)
                                  \o GivenFlag("C", call.tok),
                              None)
        /\ ReturnedValue("True") <=> AnsweredRc({HD})
        /\ ReturnedValue("False") <=> AnsweredRc({NF, EX})
        /\ ret.kind = "raised" <=> ~AnsweredRc({HD, NF, EX})

\* invalidate with a stale TTL and a CAS token was answered EX and returned False.
C19_Witness ==
    /\ call.op = "invalidate" /\ call.opt = Some(0) /\ call.tok # None
    /\ AnsweredRc({EX}) /\ ReturnedValue("False")

\* ------------------------------------------------------------------ a storing server
\* A memcached that holds at most the one key K and gives every stored item a new
\* CAS token.  Item: the value bytes, the client flags, the CAS token.
Item(value, flags, cas) == [value |-> value, flags |-> flags, cas |-> cas]

\* The argument of the first flag of tokens that starts with prefix, None if there
\* is no such flag.
RECURSIVE FlagArg(_, _)
FlagArg(tokens, prefix) ==
    IF tokens = <<>> THEN None
    ELSE IF tokens[1][1] = prefix THEN Some(Tail(tokens[1]))
    ELSE FlagArg(Tail(tokens), prefix)

\* The flags an mg asks back, in the order asked: f<flags>, c<cas>, t<ttl>.
RECURSIVE ReturnFlags(_, _)
ReturnFlags(tokens, item) ==
    IF tokens = <<>> THEN <<>>
    ELSE (CASE tokens[1] = <<"f">> -> << <<"f">> \o DecimalStr(item.flags) >>
            [] tokens[1] = <<"c">> -> << <<"c">> \o DecimalStr(item.cas) >>
            [] tokens[1] = <<"t">> -> << <<"t", "-", "1">> >>
            [] OTHER -> <<>>)
         \o ReturnFlags(Tail(tokens), item)

Line(tokens) == Join(<<SP>>, tokens) \o CRLF

\* What the server does with the bytes of one command: the bytes it answers with
\* (none while the data block of an ms is incomplete), and its item and next CAS
\* token afterwards.
ServerHandle(st, nc, wire) ==
    LET rl == ReadLine(wire)
        toks == Split(rl.line)
        cm == toks[1]
        same == [bytes |-> <<>>, store |-> st, next_cas |-> nc]
    IN
    IF cm = MS
    THEN LET n == IntValue(toks[3])
             flags == SubSeq(toks, 4, Len(toks))
             c == FlagArg(flags, "C")
             f == FlagArg(flags, "F")
         IN IF Len(rl.rest) < n + 2 THEN same
            ELSE IF SubSeq(rl.rest, n + 1, n + 2) # CRLF
            THEN [same EXCEPT !.bytes = ClientErrorTok \o <<" ", "b", "a", "d">> \o CRLF]
            ELSE IF c # None /\ st = None THEN [same EXCEPT !.bytes = Line(<<NF>>)]
            ELSE IF c # None /\ IntValue(c[1]) # st[1].cas THEN [same EXCEPT !.bytes = Line(<<EX>>)]
            ELSE [bytes |-> Line(<<HD>>),
                  store |-> Some(Item(SubSeq(rl.rest, 1, n),
                                      IF f = None THEN 0 ELSE IntValue(f[1]), nc)),
                  next_cas |-> nc + 1]
    ELSE IF cm = MG
    THEN LET flags == SubSeq(toks, 3, Len(toks)) IN
         IF st = None THEN [same EXCEPT !.bytes = Line(<<EN>>)]
         ELSE IF FlagArg(flags, "v") # None
         THEN [same EXCEPT !.bytes =
                  Line(<<VA, DecimalStr(Len(st[1].value))>> \o ReturnFlags(flags, st[1]))
                  \o st[1].value \o CRLF]
         ELSE [same EXCEPT !.bytes = Line(<<HD>> \o ReturnFlags(flags, st[1]))]
    ELSE \* md
         LET flags == SubSeq(toks, 3, Len(toks))
             c == FlagArg(flags, "C")
         IN IF st = None THEN [same EXCEPT !.bytes = Line(<<NF>>)]
            ELSE IF c # None /\ IntValue(c[1]) # st[1].cas THEN [same EXCEPT !.bytes = Line(<<EX>>)]
            ELSE IF FlagArg(flags, "I") # None THEN [same EXCEPT !.bytes = Line(<<HD>>)]
            ELSE [bytes |-> Line(<<HD>>), store |-> None, next_cas |-> nc]

\* connection.py:79-88  _receive_meta_result on a link that stays open, with buf the
\* bytes the server sends: the result, the exception, or no end at all when the
\* server sends nothing.
Receive(buf) ==
    IF buf = <<>> THEN [blocked |-> TRUE]
    ELSE LET rl == ReadLine(buf)
             h == load_header(rl.line)
         IN IF "raised" \in DOMAIN h THEN h
            ELSE IF ReadsBody(h.ok.rc)
            THEN IF h.ok.datalen = None THEN [raised |-> MissingDatalen]
                 ELSE [ok |-> [h.ok EXCEPT !.value = Some(SubSeq(rl.rest, 1, h.ok.datalen[1]))]]
            ELSE h

\* connection.py:72-77  _execute_meta_command against the storing server.
Execute(c, st, nc) ==
    LET srv == ServerHandle(st, nc, WireBytes(c))
    IN [resp |-> Receive(srv.bytes), store |-> srv.store, next_cas |-> srv.next_cas]

\* ---- MetaClient.get ----
\* The keyword arguments of MetaClient.get (meta_client.py:117-128), at their defaults.
DefaultGet ==
    [return_cas |-> FALSE, return_ttl |-> FALSE, return_last_access |-> FALSE,
     return_size |-> FALSE, return_hit_before |-> FALSE, update_ttl |-> None,
     no_lru_bump |-> FALSE, vivify_on_miss_ttl |-> None, recache_ttl_threshold |-> None,
     check_cas |-> None]
WithCas(b) == [DefaultGet EXCEPT !.return_cas = b]
\* `if flag: flags.append(...)`
FlagIf(b, tok) == IF b THEN << tok >> ELSE <<>>
\* meta_client.py:130-153
MetaClient_get(o) ==
    MetaCommand(MG, K, None,
                << <<"v">>, <<"f">> >>
                \o FlagIf(o.return_cas, <<"c">>)
                \o FlagIf(o.return_ttl, <<"t">>)
                \o FlagIf(o.return_last_access, <<"l">>)
                \o FlagIf(o.return_size, <<"s">>)
                \o FlagIf(o.return_hit_before, <<"h">>)
                \o OptFlag("T", o.update_ttl)
                \o FlagIf(o.no_lru_bump, <<"u">>)
                \o OptFlag("N", o.vivify_on_miss_ttl)
                \o OptFlag("R", o.recache_ttl_threshold)
                \o OptFlag("C", o.check_cas),
                None)

NoFlags ==
    [client_flags |-> None, cas_token |-> None, ttl |-> None, last_access |-> None,
     size |-> None, hit_before |-> None, won_recache |-> None, is_stale |-> None,
     already_won |-> None, key |-> None]
\* meta_client.py:13-40  _parse_flags: the dictionary, a key absent when None
HitBeforeIsOne(n) == n = 1
\* meta_client.py:30  int(rest) != 0
HitBefore(n) == n # 0
RECURSIVE parse_flags(_, _)
parse_flags(flags, acc) ==
    IF flags = <<>> THEN acc
    ELSE IF flags[1] = <<>> THEN parse_flags(Tail(flags), acc)
    ELSE LET prefix == flags[1][1]
             rest == Tail(flags[1])
         IN parse_flags(Tail(flags),
              CASE prefix = "f" -> [acc EXCEPT !.client_flags = Some(IntValue(rest))]
                [] prefix = "c" -> [acc EXCEPT !.cas_token = Some(IntValue(rest))]
                [] prefix = "t" -> [acc EXCEPT !.ttl = Some(IntValue(rest))]
                [] prefix = "l" -> [acc EXCEPT !.last_access = Some(IntValue(rest))]
                [] prefix = "s" -> [acc EXCEPT !.size = Some(IntValue(rest))]
                [] prefix = "h" -> [acc EXCEPT !.hit_before = Some(HitBefore(IntValue(rest)))]
                [] prefix = "W" -> [acc EXCEPT !.won_recache = Some(TRUE)]
                [] prefix = "X" -> [acc EXCEPT !.is_stale = Some(TRUE)]
                [] prefix = "Z" -> [acc EXCEPT !.already_won = Some(TRUE)]
                [] prefix = "k" -> [acc EXCEPT !.key = Some(Decode(rest).ok)]
                [] OTHER -> acc)

\* The exception the token raises: int(rest) of lines 20-30 raises ValueError,
\* rest.decode("utf-8") of line 38 UnicodeDecodeError.
TokenError(flag) ==
    IF flag = <<>> THEN None
    ELSE IF flag[1] \in {"f", "c", "t", "l", "s", "h"} /\ ~IsIntLiteral(Tail(flag))
    THEN Some("ValueError")
    ELSE IF flag[1] = "k" /\ "raised" \in DOMAIN Decode(Tail(flag))
    THEN Some("UnicodeDecodeError")
    ELSE None
RECURSIVE FirstError(_)
FirstError(flags) ==
    IF flags = <<>> THEN None
    ELSE IF TokenError(flags[1]) # None THEN TokenError(flags[1])
    ELSE FirstError(Tail(flags))
\* meta_client.py:13-40  _parse_flags(flags): the loop ends at the first token that
\* raises, otherwise the dictionary is returned.
ParseFlags(flags) ==
    IF FirstError(flags) # None THEN Raised(FirstError(flags)[1])
    ELSE Returned(parse_flags(flags, NoFlags))

\* parsed.get(name, default)
GetOr(x, default) == IF x = None THEN default ELSE x[1]

\* result.py:8-19  GetResult()
GetResult ==
    [value |-> None, key |-> None, cas_token |-> None, ttl |-> None, last_access |-> None,
     size |-> None, hit_before |-> None, is_stale |-> FALSE, won_recache |-> FALSE,
     already_won |-> FALSE]
\* The None a method returns where it may also return a record.
NoneValue == [none |-> TRUE]

\* meta_client.py:179  result.value is not None and len(result.value) > 0
HasBody(v) == v # None /\ Len(v[1]) > 0

\* meta_client.py:157-183
MetaClient_get_result(o, res) ==
    IF res.rc = EN THEN Returned(NoneValue)
    ELSE LET p == parse_flags(res.flags, NoFlags) IN
         Returned([GetResult EXCEPT
            !.is_stale = GetOr(p.is_stale, FALSE),
            !.won_recache = GetOr(p.won_recache, FALSE),
            !.already_won = GetOr(p.already_won, FALSE),
            !.cas_token = IF o.return_cas THEN p.cas_token ELSE None,
            !.ttl = IF o.return_ttl THEN p.ttl ELSE None,
            !.last_access = IF o.return_last_access THEN p.last_access ELSE None,
            !.size = IF o.return_size THEN p.size ELSE None,
            !.hit_before = IF o.return_hit_before THEN p.hit_before ELSE None,
            !.key = p.key,
            !.value = IF HasBody(res.value)
                      THEN Some(load(res.value[1], GetOr(p.client_flags, 0)))
                      ELSE None])

\* ---- Memcache (memcache.py) ----
\* `if expire: flags.append(b"T%d" % expire)`
TruthyFlag(prefix, x) == IF x # None /\ x[1] # 0 THEN << Fmt(prefix, x[1]) >> ELSE <<>>

\* memcache.py:92-104  Connection.set; the result of the execute is not looked at
Memcache_set(value, expire) ==
    LET d == dump(value) IN
    StoreCommand(d[1], << Fmt("F", d[2]) >> \o TruthyFlag("T", expire))
Memcache_set_result(res) == Returned("None")

\* memcache.py:106-135  Connection.cas
Memcache_cas(value, cas_token, expire) ==
    LET d == dump(value) IN
    StoreCommand(d[1], << Fmt("F", d[2]), Fmt("C", cas_token) >> \o TruthyFlag("T", expire))
Memcache_cas_result(res) ==
    IF res.rc # HD THEN Raised("MemcacheError") ELSE Returned("None")

\* memcache.py:137-146  Connection.get
Memcache_get == MetaCommand(MG, K, None, << <<"v">>, <<"f">> >>, None)
Memcache_get_result(res) ==
    IF res.value = None THEN Returned(NoneValue)
    ELSE Returned(load(res.value[1], IntValue(Tail(res.flags[1]))))

\* memcache.py:148-174  Connection.gets
Memcache_gets == MetaCommand(MG, K, None, << <<"v">>, <<"f">>, <<"c">> >>, None)
Memcache_gets_result(res) ==
    IF res.value = None THEN Returned(NoneValue)
    ELSE LET c == FlagArg(Tail(res.flags), "c") IN
         IF c = None THEN Raised("MemcacheError")
         ELSE Returned([value |-> load(res.value[1], IntValue(Tail(res.flags[1]))),
                        cas_token |-> IntValue(c[1])])

\* memcache.py:176-178  Connection.delete; async_memcache.py:173-175
Memcache_delete == MetaCommand(MD, K, None, <<>>, None)
Memcache_delete_result(res) == Returned("None")

\* ---- calls against the storing server ----
Apis == {"meta", "memcache"}

\* The command the method called by c builds.
ClientCommandOf(c) ==
    IF c.api = "meta"
    THEN CASE c.op = "get" -> MetaClient_get(WithCas(FALSE))
           [] c.op = "get_cas" -> MetaClient_get(WithCas(TRUE))
           [] OTHER -> MetaCommandOf(c)
    ELSE CASE c.op = "set" -> Memcache_set(c.value[1], c.opt)
           [] c.op = "cas" -> Memcache_cas(c.value[1], c.tok[1], c.opt)
           [] c.op = "get" -> Memcache_get
           [] c.op = "get_cas" -> Memcache_gets
           [] c.op = "delete" -> Memcache_delete

\* How the method ends, given what its execute ended with.
ClientOutcomeOf(c, resp) ==
    IF "blocked" \in DOMAIN resp THEN Blocked
    ELSE IF "raised" \in DOMAIN resp THEN Raised(resp.raised.type)
    ELSE IF c.api = "meta"
    THEN CASE c.op = "get" -> MetaClient_get_result(WithCas(FALSE), resp.ok)
           [] c.op = "get_cas" -> MetaClient_get_result(WithCas(TRUE), resp.ok)
           [] OTHER -> MetaOutcome(c.op, resp)
    ELSE CASE c.op = "set" -> Memcache_set_result(resp.ok)
           [] c.op = "cas" -> Memcache_cas_result(resp.ok)
           [] c.op = "get" -> Memcache_get_result(resp.ok)
           [] c.op = "get_cas" -> Memcache_gets_result(resp.ok)
           [] c.op = "delete" -> Memcache_delete_result(resp.ok)

\* The CAS token a read that asked for it came back with, None on a miss.
TokenRead(c, out) ==
    IF c.op # "get_cas" \/ out.kind # "returned" \/ out.val = NoneValue THEN None
    ELSE IF c.api = "meta" THEN out.val.cas_token ELSE Some(out.val.cas_token)

\* Caller c.by makes call c: the method builds its command, executes it on a
\* connection of its own against the server, and maps the result.
Perform(c) ==
    LET cm == ClientCommandOf(c)
        ex == Execute(cm, store, next_cas)
        out == ClientOutcomeOf(c, ex.resp)
        wrote == ex.store # store
        tok == TokenRead(c, out)
    IN /\ c.by \notin hung
       /\ ex.next_cas <= MaxStores + 1
       /\ call' = [c EXCEPT !.pre = Some([existed |-> store # None, since |-> since[c.by]])]
       /\ ccmd' = cm
       /\ cresp' = ex.resp
       /\ ret' = out
       /\ store' = ex.store
       /\ next_cas' = ex.next_cas
       /\ hung' = IF out = Blocked THEN hung \cup {c.by} ELSE hung
       /\ seen' = IF tok # None THEN [seen EXCEPT ![c.by] = tok] ELSE seen
       /\ since' = IF wrote
                   THEN [t \in Callers |->
                           Some([op |-> c.op, by |-> c.by, item |-> ex.store])]
                   ELSE IF tok # None THEN [since EXCEPT ![c.by] = None]
                   ELSE since
       /\ last_set' = IF c.api = "meta" /\ c.op = "set" /\ out.kind = "returned" THEN c.value
                      ELSE IF wrote THEN None
                      ELSE last_set
       /\ UNCHANGED <<poolVars, connVars, codecVars, ringVars, authVars>>

ClientSet(t, api, v) == Perform(Call(api, t, "set", Some(v), None, None))
ClientGet(t, api, withCas) ==
    Perform(Call(api, t, IF withCas THEN "get_cas" ELSE "get", None, None, None))
\* cas with the token of the caller's last read
ClientCas(t, api, v) ==
    /\ seen[t] # None
    /\ Perform(Call(api, t, "cas", Some(v), None, seen[t]))
ClientDelete(t, api) == Perform(Call(api, t, "delete", None, None, None))

ClientNext ==
    \E t \in Callers, api \in Apis :
        \/ \E v \in Values : ClientSet(t, api, v)
        \/ \E w \in BOOLEAN : ClientGet(t, api, w)
        \/ \E v \in Values : ClientCas(t, api, v)
        \/ ClientDelete(t, api)

InitClient == variant = "blocking" /\ PoolQuiet /\ ConnQuiet /\ ClientQuiet /\ AuthQuiet
\* Callers using MetaClient and Memcache against one storing server.
SpecClient == InitClient /\ [][ClientNext]_vars

\* What the call in progress found: whether the key was stored, and the last
\* successful write since the caller last read a CAS token.
Pre == call.pre[1]
MetaCalled(ops) == call.api = "meta" /\ call.op \in ops
ConflictingSet ==
    /\ call.op = "cas"
    /\ Pre.since # None
    /\ Pre.since[1].op = "set"
    /\ Pre.since[1].by # call.by

\* C14: MetaClient.set(k, v) returns for every supported value v, the empty ones
\* included, and a MetaClient.get(k) that follows it with no write to k in between
\* returns a GetResult whose value is v.
C14_RoundTrip ==
    /\ MetaCalled({"set"}) => ret.kind = "returned"
    /\ (MetaCalled({"get", "get_cas"}) /\ last_set # None) =>
          /\ ret.kind = "returned"
          /\ ret.val # NoneValue
          /\ ret.val.value = last_set

\* C15: a cas with a token read before another caller's set completed reports
\* failure (MetaClient.cas returns False, Memcache.cas raises MemcacheError) and
\* leaves the value of that set stored.
C15_CasSafety ==
    ConflictingSet =>
        /\ ret = (IF call.api = "meta" THEN Returned("False") ELSE Raised("MemcacheError"))
        /\ store = Pre.since[1].item

\* C20: Memcache.delete(k) returns True when the key was stored and False when it
\* was not, so that two deletes after a set return True and then False.
C20_DeleteReturnsBool ==
    (call.api = "memcache" /\ call.op = "delete") =>
        ret = Returned(IF Pre.existed THEN "True" ELSE "False")

\* ------------------------------------------------ reads and arithmetic of MetaClient
\* meta_client.py:185-194  gat
MetaClient_gat(expire) ==
    MetaCommand(MG, K, None, << <<"v">>, <<"f">>, Fmt("T", expire) >>, None)
\* meta_client.py:196-201
MetaClient_gat_result(res) ==
    IF res.value = None THEN Returned(NoneValue)
    ELSE Returned(load(res.value[1],
                       GetOr(parse_flags(res.flags, NoFlags).client_flags, 0)))

\* meta_client.py:203-213  touch
MetaClient_touch(expire) == MetaCommand(MG, K, None, << Fmt("T", expire) >>, None)
MetaClient_touch_result(res) == Returned(IF res.rc # EN THEN "True" ELSE "False")

MArith == <<"m", "a">>
ModeDecr == <<"M", "D">>
InitialFlagsApart(initial, initial_ttl) == OptFlag("J", initial) \o OptFlag("N", initial_ttl)
\* meta_client.py:476-479  J<initial>, and N<initial_ttl> inside the same `if`
InitialFlags(initial, initial_ttl) ==
    IF initial = None THEN <<>> ELSE << Fmt("J", initial[1]) >> \o OptFlag("N", initial_ttl)
\* meta_client.py:474-483 (incr) and 505-514 (decr, with MD after the delta)
MetaClient_incr(isDecr, delta, initial, initial_ttl, update_ttl) ==
    MetaCommand(MArith, K, None,
                << Fmt("D", delta) >> \o FlagIf(isDecr, ModeDecr) \o << <<"v">> >>
                \o InitialFlags(initial, initial_ttl) \o OptFlag("T", update_ttl),
                None)
\* meta_client.py:487-493  (int() of the payload)
MetaClient_incr_result(res) ==
    IF res.rc = NF THEN Raised("MemcacheError")
    ELSE IF res.rc # VA THEN Raised("MemcacheError")
    ELSE IF res.value = None THEN Raised("MemcacheError")
    ELSE IF IsIntLiteral(res.value[1]) THEN Returned(IntValue(res.value[1]))
    ELSE Raised("ValueError")

\* The public methods of the two classes (meta_client.py, async_meta_client.py).
MetaClientMethods ==
    {"get", "gat", "touch", "get_many", "set", "add", "replace", "append", "prepend",
     "cas", "delete", "invalidate", "incr", "decr", "flush_all", "execute_meta_command"}
AsyncMetaClientMethods == MetaClientMethods \ {"gat"}
Offers(v, op) ==
    op \in (IF v = "blocking" THEN MetaClientMethods ELSE AsyncMetaClientMethods)

\* A call of a read or arithmetic method, with its arguments.
ReadCall(op, args) == [api |-> "meta", by |-> 1, op |-> op, args |-> args]
ReadCommandOf(c) ==
    CASE c.op = "get" -> MetaClient_get(c.args)
      [] c.op = "gat" -> MetaClient_gat(c.args.expire)
      [] c.op = "touch" -> MetaClient_touch(c.args.expire)
      [] c.op \in {"incr", "decr"} ->
            MetaClient_incr(c.op = "decr", c.args.delta, c.args.initial,
                            c.args.initial_ttl, c.args.update_ttl)
ReadOutcome(c, resp) ==
    IF "raised" \in DOMAIN resp THEN Raised(resp.raised.type)
    ELSE CASE c.op = "get" -> MetaClient_get_result(c.args, resp.ok)
           [] c.op = "gat" -> MetaClient_gat_result(resp.ok)
           [] c.op = "touch" -> MetaClient_touch_result(resp.ok)
           [] c.op \in {"incr", "decr"} -> MetaClient_incr_result(resp.ok)

\* Arguments of the calls.
GetCalls ==
    { ReadCall("get", [DefaultGet EXCEPT !.return_cas = c, !.return_ttl = t,
                                         !.return_last_access = l, !.return_size = z,
                                         !.return_hit_before = h, !.update_ttl = u]) :
        c \in BOOLEAN, t \in BOOLEAN, l \in BOOLEAN, z \in BOOLEAN, h \in BOOLEAN,
        u \in {None, Some(0)} }
TtlCalls == { ReadCall(op, [expire |-> e]) : op \in {"gat", "touch"}, e \in {0, 10} }
ArithCalls ==
    { ReadCall(op, [delta |-> d, initial |-> i, initial_ttl |-> n, update_ttl |-> u]) :
        op \in {"incr", "decr"}, d \in {1, 3}, i \in OptInts, n \in OptInts,
        u \in {None, Some(0)} }

\* What the execute of a read may end with: the MemcacheError of a CLIENT_ERROR, or
\* an answer of the server to the command, with return flags and a payload (empty,
\* text, a number).
ReturnFlagLists ==
    { <<>>,
      << <<"f", "1">> >>,
      << <<"f", "0">>, <<"c", "5">> >>,
      << <<"f", "1">>, <<"t", "9">>, <<"l", "3">>, <<"s", "1">>, <<"h", "1">> >>,
      << <<"f", "0">>, <<"h", "0">>, <<"W">> >>,
      << <<"f", "0">>, <<"c", "5">>, <<"t", "-", "1">>, <<"X">>, <<"Z">> >> }
Payloads == { <<>>, <<"a">>, <<"1", "3">> }
Failed == { [raised |-> Exc("MemcacheError", <<"b", "a", "d">>)] }
Hits == { [ok |-> MetaResult(VA, Some(Len(b)), fl, Some(b))] :
            b \in Payloads, fl \in ReturnFlagLists }
\* mg with v: a miss or the value; mg without v: a miss or a header; ma: a counter
\* or a refusal.
ReadAnswers(op) ==
    Failed \cup
    CASE op \in {"get", "gat"} -> { [ok |-> MetaResult(EN, None, <<>>, None)] } \cup Hits
      [] op = "touch" ->
            { [ok |-> MetaResult(EN, None, <<>>, None)] }
            \cup { [ok |-> MetaResult(HD, None, fl, None)] : fl \in ReturnFlagLists }
      [] OTHER ->
            { [ok |-> MetaResult(rc, None, <<>>, None)] : rc \in {EN, NF, NS, HD} }
            \cup { [ok |-> MetaResult(VA, Some(Len(b)), <<>>, Some(b))] : b \in Payloads }

\* The method c.op of the client of variant v is called; when the class has the
\* method, it executes its command and the execute ends with answer a.
ReadCalled(v, c, a) ==
    /\ call = NoCall
    /\ variant = v
    /\ call' = c
    /\ IF Offers(v, c.op)
       THEN /\ ccmd' = ReadCommandOf(c)
            /\ cresp' = a
            /\ ret' = ReadOutcome(c, a)
       ELSE /\ ccmd' = NoCommand
            /\ cresp' = NoOutcome
            /\ ret' = Raised("AttributeError")
    /\ UNCHANGED <<store, next_cas, seen, since, last_set, hung>>
    /\ UNCHANGED <<poolVars, connVars, codecVars, ringVars, authVars>>

GetCall(v, c, a) == ReadCalled(v, c, a)
TtlCall(v, c, a) == ReadCalled(v, c, a)
ArithCall(v, c, a) == ReadCalled(v, c, a)

Variants == {"blocking", "cooperative"}
ReadsNext ==
    \E v \in Variants :
        \/ \E c \in GetCalls, a \in ReadAnswers("get") : GetCall(v, c, a)
        \/ \E c \in TtlCalls : \E a \in ReadAnswers(c.op) : TtlCall(v, c, a)
        \/ \E c \in ArithCalls : \E a \in ReadAnswers(c.op) : ArithCall(v, c, a)

InitReads == variant \in Variants /\ PoolQuiet /\ ConnQuiet /\ ClientQuiet /\ AuthQuiet
\* One call of a read or arithmetic method of either class, answered in every way.
SpecReads == InitReads /\ [][ReadsNext]_vars

\* ---- claims on the reads ----
\* The integer argument of the response's flag with this prefix, None without one.
FlagInt(flags, prefix) ==
    IF FlagArg(flags, prefix) = None THEN None
    ELSE Some(IntValue(FlagArg(flags, prefix)[1]))
Carries(flags, prefix) == FlagArg(flags, prefix) # None
Answered(ops) == call # NoCall /\ call.op \in ops /\ "ok" \in DOMAIN cresp

\* C21: get returns None iff rc is EN; otherwise a GetResult whose cas_token, ttl,
\* last_access, size and hit_before are those of the response when the matching
\* return_* option was requested and None otherwise, whose is_stale, won_recache and
\* already_won tell whether the response carries X, W, Z, and whose value is the body,
\* whenever the response has one, decoded with the f token's flag (0 without f).
C21_GetResult ==
    Answered({"get"}) =>
        LET res == cresp.ok
            o == call.args
            g == ret.val
        IN /\ ret.kind = "returned"
           /\ (g = NoneValue) <=> (res.rc = EN)
           /\ res.rc # EN =>
                /\ g.cas_token = (IF o.return_cas THEN FlagInt(res.flags, "c") ELSE None)
                /\ g.ttl = (IF o.return_ttl THEN FlagInt(res.flags, "t") ELSE None)
                /\ g.last_access =
                      (IF o.return_last_access THEN FlagInt(res.flags, "l") ELSE None)
                /\ g.size = (IF o.return_size THEN FlagInt(res.flags, "s") ELSE None)
                /\ g.hit_before =
                      (IF o.return_hit_before /\ Carries(res.flags, "h")
                       THEN Some(FlagInt(res.flags, "h")[1] # 0) ELSE None)
                /\ g.is_stale = Carries(res.flags, "X")
                /\ g.won_recache = Carries(res.flags, "W")
                /\ g.already_won = Carries(res.flags, "Z")
                /\ res.value # None =>
                      g.value = Some(load(res.value[1],
                                          GetOr(FlagInt(res.flags, "f"), 0)))

Without(flags, tok) == SelectSeq(flags, LAMBDA f : f # tok)
Occurrences(flags, tok) == Len(SelectSeq(flags, LAMBDA f : f = tok))

\* C22: incr sends one ma command with D<delta>, v, J<initial> only when initial is
\* given, N<initial_ttl> only when both initial and initial_ttl are given, and
\* T<update_ttl> when given; decr sends the same plus MD. The call raises when rc is
\* NF or anything else than VA, and otherwise returns the integer whose decimal
\* digits are the payload.
C22_ArithCommandAndResult ==
    Answered({"incr", "decr"}) =>
        LET a == call.args
            res == cresp.ok
            expected == << <<"D">> \o DecimalStr(a.delta), <<"v">> >>
                        \o GivenFlag("J", a.initial)
                        \o (IF a.initial # None THEN GivenFlag("N", a.initial_ttl) ELSE <<>>)
                        \o GivenFlag("T", a.update_ttl)
        IN /\ ccmd.cm = MArith /\ ccmd.key = K /\ ccmd.datalen = None /\ ccmd.value = None
           /\ Without(ccmd.flags, ModeDecr) = expected
           /\ Occurrences(ccmd.flags, ModeDecr) = (IF call.op = "decr" THEN 1 ELSE 0)
           /\ res.rc # VA => ret.kind = "raised"
           /\ (res.rc = VA /\ StrIsDigit(res.value[1])) =>
                 /\ ret.kind = "returned"
                 /\ DecimalStr(ret.val) = res.value[1]
C22_Witness ==
    /\ Answered({"decr"})
    /\ call.args.initial = None /\ call.args.initial_ttl # None
    /\ cresp.ok.rc = VA
    /\ ret = Returned(13)

\* C23: gat(k, e) sends what get(k, update_ttl=e) sends, returns None exactly when
\* that get reports a miss, and otherwise returns the value of that get's GetResult.
C23_GatIsGetWithTtl ==
    Answered({"gat"}) =>
        LET o == [DefaultGet EXCEPT !.update_ttl = Some(call.args.expire)]
            g == MetaClient_get_result(o, cresp.ok).val
        IN /\ ccmd = MetaClient_get(o)
           /\ ret.kind = "returned"
           /\ (ret.val = NoneValue) <=> (g = NoneValue)
           /\ g # NoneValue => g.value = Some(ret.val)

\* C28: every method of MetaClient is a method of AsyncMetaClient, and for the same
\* arguments and the same answer the cooperative call executes the same command and
\* ends as the blocking call ends.
C28_VariantEquivalence ==
    (call # NoCall /\ variant = "cooperative") =>
        /\ call.op \in MetaClientMethods
        /\ ret.kind # "raised" \/ cresp # NoOutcome
        /\ ccmd = ReadCommandOf(call)
        /\ ret = ReadOutcome(call, cresp)

\* ------------------------------------------------ a client over several endpoints
\* ---- keys, as text and as bytes ----
\* A text is a sequence of characters, a byte string a sequence of bytes; e_acute is
\* the one character here whose UTF-8 encoding is not itself.
KeyTexts == { <<"a">>, <<"e_acute">> }
TextKey(text) == [t |-> "str", d |-> text]
BytesKey(b) == [t |-> "bytes", d |-> b]
\* a byte string that is no UTF-8
BadKey == BytesKey(<<"C3">>)
KeyForms(texts) == { TextKey(x) : x \in texts } \cup { BytesKey(Encode(x)) : x \in texts }
\* meta_client.py:99-103  _to_bytes; meta_command.py:22-23
to_bytes(key) == IF key.t = "str" THEN BytesKey(Encode(key.d)) ELSE key

RouteKeyRaw(key) == [ok |-> key]
\* meta_client.py:95-96, memcache.py:288-289  the key get_node is asked for
RouteKey(key) ==
    IF key.t = "bytes"
    THEN LET r == Decode(key.d) IN
         IF "raised" \in DOMAIN r THEN r ELSE [ok |-> TextKey(r.ok)]
    ELSE [ok |-> key]

\* ---- pools ----
\* The addresses the client is constructed with; pool i is the one built for Addrs[i].
Addrs == 1 .. NumPools
pool_size == 23
Classes == {"MetaClient", "Memcache"}
\* The address the create_connection of pool i connects to when it is called.
\* meta_client.py:68-75: `def _make(a: Addr = a)` holds the address of its iteration;
\* memcache.py:258-266: the lambda reads the variable addr of __init__, which the loop
\* has left at the last address by the time a pool creates a connection.
CreateConnection(k, i) == IF k = "Memcache" THEN NumPools ELSE i

NoNodes == [i \in Addrs |-> [size |-> 0, idle |-> <<>>]]
\* connection.py:107-121  Pool.get up to the yield, with no other caller around
Borrow(ns, k, i) ==
    IF ns[i].idle # <<>>
    THEN [conn |-> Head(ns[i].idle), nodes |-> [ns EXCEPT ![i].idle = Tail(@)]]
    ELSE IF ns[i].size >= pool_size THEN [raised |-> "Empty"]
    ELSE [conn |-> [pool |-> i, id |-> ns[i].size + 1, addr |-> CreateConnection(k, i)],
          nodes |-> [ns EXCEPT ![i].size = @ + 1]]
ReleaseNever(ns, i, c) == ns
\* connection.py:109, 115, 121  self._connections.put(connection) after the yield
Release(ns, i, c) == [ns EXCEPT ![i].idle = Append(@, c)]

Wrote(i, c, bytes) == [pool |-> i, conn |-> c, wire |-> bytes]

\* ---- flush_all ----
FlushAllBytes == <<"f", "l", "u", "s", "h", "_", "a", "l", "l">>
\* connection.py:55-58
FlushLine(delay) ==
    IF delay > 0 THEN FlushAllBytes \o <<" ">> \o DecimalStr(delay) \o CRLF
    ELSE FlushAllBytes \o CRLF
\* meta_client.py:530-533, memcache.py:298-301: the loop over HashRing.nodes from pool
\* i on; the server at address bad answers something else than OK, which
\* Connection.flush_all raises as MemcacheError (connection.py:60-62).
RECURSIVE FlushFrom(_, _, _, _, _, _)
FlushFrom(i, ns, tr, k, delay, bad) ==
    IF i > NumPools THEN [nodes |-> ns, trail |-> tr, ret |-> Returned("None")]
    ELSE LET b == Borrow(ns, k, i) IN
         IF "raised" \in DOMAIN b
         THEN [nodes |-> ns, trail |-> tr, ret |-> Raised(b.raised)]
         ELSE LET tr2 == Append(tr, Wrote(i, b.conn, FlushLine(delay))) IN
              IF b.conn.addr = bad
              THEN [nodes |-> b.nodes, trail |-> tr2, ret |-> Raised("MemcacheError")]
              ELSE FlushFrom(i + 1, Release(b.nodes, i, b.conn), tr2, k, delay, bad)

RingCall(op, args) == [api |-> klass, by |-> 1, op |-> op, args |-> args]

\* flush_all(delay) is called; Memcache.flush_all takes no delay.
FlushAll(delay, bad) ==
    LET f == FlushFrom(1, nodes, <<>>, klass, delay, bad) IN
    /\ ncalls < MaxCalls
    /\ klass = "Memcache" => delay = 0
    /\ call' = RingCall("flush_all", [delay |-> delay, bad |-> bad])
    /\ nodes' = f.nodes
    /\ trail' = f.trail
    /\ ret' = f.ret
    /\ ncalls' = ncalls + 1
    /\ UNCHANGED <<klass, ring, routed, ccmd, cresp, store, next_cas, seen, since,
                   last_set, hung>>
    /\ UNCHANGED <<poolVars, connVars, codecVars, authVars>>

\* ---- one command for one key ----
\* The text a key stands for.
KeyText(key) ==
    IF key.t = "str" THEN key.d
    ELSE IF "ok" \in DOMAIN Decode(key.d) THEN Decode(key.d).ok
    ELSE <<>>
\* What one execute for `key` does when the connection is taken for `asked`:
\* meta_client.py:154-155 (get), 105-107 (execute_meta_command); memcache.py:309-311.
\* The server answers with a.
OneCommand(ns, k, rg, asked, c, a) ==
    LET r == RouteKey(asked) IN
    IF "raised" \in DOMAIN r THEN [nodes |-> ns, wrote |-> <<>>, resp |-> [raised |-> Exc(r.raised, <<>>)], pool |-> 0]
    ELSE LET i == rg[r.ok]
             b == Borrow(ns, k, i)
         IN IF "raised" \in DOMAIN b
            THEN [nodes |-> ns, wrote |-> <<>>, resp |-> [raised |-> Exc(b.raised, <<>>)], pool |-> i]
            ELSE IF "raised" \in DOMAIN a
            THEN [nodes |-> b.nodes, wrote |-> << Wrote(i, b.conn, WireBytes(c)) >>,
                  resp |-> a, pool |-> i]
            ELSE [nodes |-> Release(b.nodes, i, b.conn),
                  wrote |-> << Wrote(i, b.conn, WireBytes(c)) >>, resp |-> a, pool |-> i]

GetFor(key) == [MetaClient_get(DefaultGet) EXCEPT !.key = to_bytes(key).d]
Miss == [ok |-> MetaResult(EN, None, <<>>, None)]
Hit == [ok |-> MetaResult(VA, Some(1), << <<"f", "0">> >>, Some(<<"a">>))]

\* A call on `key`, through get or through execute_meta_command with an mg command.
\* MetaClient.get asks for a connection with key_bytes, execute_meta_command with
\* command.key, Memcache.get with the key as given.
KeyCall(key, via, a) ==
    LET asked == IF via = "get" /\ klass = "Memcache" THEN key ELSE to_bytes(key)
        one == OneCommand(nodes, klass, ring, asked, GetFor(key), a)
    IN /\ ncalls < MaxCalls
       /\ call' = RingCall(via, [key |-> key])
       /\ ccmd' = GetFor(key)
       /\ cresp' = one.resp
       /\ ret' = IF "raised" \in DOMAIN one.resp THEN Raised(one.resp.raised.type)
                 ELSE IF via = "get" THEN MetaClient_get_result(DefaultGet, one.resp.ok)
                 ELSE Returned(one.resp.ok)
       /\ nodes' = one.nodes
       /\ trail' = one.wrote
       /\ routed' = IF one.pool = 0 \/ KeyText(key) \notin DOMAIN routed THEN routed
                    ELSE [routed EXCEPT ![KeyText(key)] =
                            @ \cup {[pool |-> one.pool, form |-> key.t, via |-> via]}]
       /\ ncalls' = ncalls + 1
       /\ UNCHANGED <<klass, ring, store, next_cas, seen, since, last_set, hung>>
       /\ UNCHANGED <<poolVars, connVars, codecVars, authVars>>

RoutedTexts == { <<"e_acute">> }
Rings(forms) == [forms -> Addrs]
RingNext ==
    \/ \E d \in {0, 5}, bad \in {0} \cup Addrs : FlushAll(d, bad)
    \/ \E key \in KeyForms(RoutedTexts) \cup {BadKey}, via \in {"get", "execute_meta_command"},
          a \in {Miss, Hit} : KeyCall(key, via, a)

RingQuiet == /\ call = NoCall /\ ccmd = NoCommand /\ cresp = NoOutcome /\ ret = NoOutcome
             /\ store = None /\ next_cas = 1
             /\ seen = [t \in Callers |-> None] /\ since = [t \in Callers |-> None]
             /\ last_set = None /\ hung = {}
InitRing ==
    /\ variant = "blocking" /\ PoolQuiet /\ ConnQuiet /\ RingQuiet /\ AuthQuiet
    /\ klass \in Classes
    /\ ring \in Rings(KeyForms(RoutedTexts) \cup {BadKey})
    /\ nodes = NoNodes
    /\ trail = <<>>
    /\ routed = [x \in RoutedTexts |-> {}]
    /\ ncalls = 0
\* Calls on a client constructed with a list of NumPools addresses.
SpecRing == InitRing /\ [][RingNext]_vars

\* ---- claims on the client over several endpoints ----
Called(k, op) == call # NoCall /\ call.api = k /\ call.op = op
SentTo(a) == { i \in DOMAIN trail : trail[i].conn.addr = a }
InSeq(x, q) == \E i \in DOMAIN q : q[i] = x

\* C25: a MetaClient.flush_all that returns has sent flush_all exactly once to every
\* endpoint, each time on one connection borrowed from that endpoint's pool, and
\* every connection it borrowed is on its pool's idle queue again.
C25_FlushAllEveryEndpoint ==
    (Called("MetaClient", "flush_all") /\ ret.kind = "returned") =>
        /\ \A a \in Addrs :
              /\ Cardinality(SentTo(a)) = 1
              /\ \A i \in SentTo(a) :
                    /\ trail[i].pool = a
                    /\ trail[i].conn.pool = a
                    /\ trail[i].wire = FlushLine(call.args.delay)
        /\ \A i \in DOMAIN trail : InSeq(trail[i].conn, nodes[trail[i].pool].idle)
C25_Witness ==
    /\ Called("MetaClient", "flush_all") /\ ret.kind = "returned"
    /\ call.args.delay = 5
    /\ ncalls = 2
    /\ \A a \in Addrs : nodes[a].size = 1

\* C26: in a Memcache or AsyncMemcache built with a list of addresses, every
\* connection of the pool built for address a is connected to a.
C26_EndpointBinding ==
    klass = "Memcache" =>
        /\ \A i \in DOMAIN trail : trail[i].conn.addr = trail[i].pool
        /\ \A a \in Addrs : \A j \in DOMAIN nodes[a].idle : nodes[a].idle[j].addr = a

\* C27: every call on a key takes its connection from the same pool, whether the
\* key is given as text or as bytes, through a high-level method or through
\* execute_meta_command.
C27_RoutingDeterminism ==
    \A x \in DOMAIN routed : \A r1 \in routed[x], r2 \in routed[x] : r1.pool = r2.pool
C27_Witness ==
    \E x \in DOMAIN routed :
        \E r1 \in routed[x], r2 \in routed[x] :
            /\ r1.form = "str" /\ r1.via = "get"
            /\ r2.form = "bytes" /\ r2.via = "execute_meta_command"
            /\ Encode(x) # x

\* ---- get_many ----
\* result[key_str] = gr
Put(acc, k, v) == [x \in DOMAIN acc \cup {k} |-> IF x = k THEN v ELSE acc[x]]
PutAlways(acc, k, v) == Put(acc, k, v)
\* meta_client.py:224-225  `if gr is not None: result[key_str] = gr`
PutHit(acc, k, gr) == IF gr.val # NoneValue THEN Put(acc, k, gr.val) ELSE acc

\* meta_client.py:220-226: the loop of get_many from the i-th key on. answers[i] is
\* what the execute of the i-th get ends with.
RECURSIVE ManyFrom(_, _, _, _, _, _, _)
ManyFrom(i, keys, answers, ns, rg, tr, acc) ==
    IF i > Len(keys) THEN [nodes |-> ns, trail |-> tr, ret |-> Returned(acc)]
    ELSE LET key == keys[i]
             key_str == RouteKey(key)
         IN IF "raised" \in DOMAIN key_str
            THEN [nodes |-> ns, trail |-> tr, ret |-> Raised(key_str.raised)]
            ELSE LET one == OneCommand(ns, "MetaClient", rg, to_bytes(key), GetFor(key),
                                       answers[i])
                 IN IF "raised" \in DOMAIN one.resp
                    THEN [nodes |-> one.nodes, trail |-> tr \o one.wrote,
                          ret |-> Raised(one.resp.raised.type)]
                    ELSE ManyFrom(i + 1, keys, answers, one.nodes, rg, tr \o one.wrote,
                                  PutHit(acc, key_str.ok.d,
                                         MetaClient_get_result(DefaultGet, one.resp.ok)))

KeyLists == UNION { [1 .. n -> KeyForms(KeyTexts)] : n \in 0 .. MaxKeys }
GetMany(keys, answers) ==
    LET g == ManyFrom(1, keys, answers, nodes, ring, <<>>, <<>>) IN
    /\ call = NoCall
    /\ call' = RingCall("get_many", [keys |-> keys])
    /\ cresp' = answers
    /\ nodes' = g.nodes
    /\ trail' = g.trail
    /\ ret' = g.ret
    /\ ncalls' = ncalls + 1
    /\ UNCHANGED <<klass, ring, routed, ccmd, store, next_cas, seen, since, last_set, hung>>
    /\ UNCHANGED <<poolVars, connVars, codecVars, authVars>>

ManyNext ==
    \E keys \in KeyLists :
        \E answers \in [DOMAIN keys -> {Miss, Hit} \cup Failed] : GetMany(keys, answers)

InitMany ==
    /\ variant = "blocking" /\ PoolQuiet /\ ConnQuiet /\ RingQuiet /\ AuthQuiet
    /\ klass = "MetaClient"
    /\ ring \in Rings(KeyForms(KeyTexts))
    /\ nodes = NoNodes
    /\ trail = <<>>
    /\ routed = [x \in KeyTexts |-> {}]
    /\ ncalls = 0
\* One call of get_many on a MetaClient over NumPools endpoints.
SpecMany == InitMany /\ [][ManyNext]_vars

\* C24: a get_many that returns has issued exactly one get per listed key, in list
\* order, and its map has key k (as text) iff a get for k was not a miss.
C24_GetMany ==
    (Called("MetaClient", "get_many") /\ ret.kind = "returned") =>
        LET keys == call.args.keys IN
        /\ Len(trail) = Len(keys)
        /\ \A i \in DOMAIN keys :
              /\ trail[i].wire = dump_header(MetaCommand(MG, to_bytes(keys[i]).d, None,
                                                         << <<"v">>, <<"f">> >>, None))
              /\ trail[i].pool = ring[TextKey(KeyText(keys[i]))]
        /\ \A x \in KeyTexts :
              (x \in DOMAIN ret.val) <=>
              (\E i \in DOMAIN keys : KeyText(keys[i]) = x /\ cresp[i] # Miss)
        /\ DOMAIN ret.val \subseteq KeyTexts
C24_Witness ==
    /\ Called("MetaClient", "get_many") /\ ret.kind = "returned"
    /\ Len(call.args.keys) = 2
    /\ call.args.keys[1].t = "bytes" /\ call.args.keys[2].t = "str"
    /\ cresp[1] = Hit /\ cresp[2] = Miss
    /\ DOMAIN ret.val = {KeyText(call.args.keys[1])}
    /\ KeyText(call.args.keys[1]) # KeyText(call.args.keys[2])

\* ---- cancellation of a task that holds a connection ----
\* Connection c is neither on the idle queue nor held by a caller.
Gone(c, q, held) == ~InQueue(q, c) /\ \A t \in Callers : held[t] # c

\* C29: cooperative variant: when a task is cancelled while it holds a connection,
\* the connection is not put back on the idle queue, and a connection that is
\* neither queued nor held is never queued or handed out again.
C29_CancelledConnectionDiscarded ==
    [][variant = "cooperative" =>
         /\ \A t \in Callers :
               AsyncPoolBodyRaise(t, Cancelled) => Gone(conn[t], connections', conn')
         /\ \A c \in 1 .. made :
               Gone(c, connections, conn) => Gone(c, connections', conn')]_vars
\* A task was cancelled in its with-body and another caller has since been handed a
\* connection.
C29_Witness ==
    /\ variant = "cooperative"
    /\ \E t1, t2 \in Callers :
          /\ t1 # t2
          /\ err[t1] = Cancelled /\ pc[t1] = "idle"
          /\ Held(t2)
          /\ made >= 2

\* ------------------------------------------------------------------ the auth handshake
Users == { <<"u">>, <<"e_acute">> }
Passwords == { <<"p", "w">> }
Credentials(texts) == {None} \cup { Some(x) : x \in texts }

Stored == <<"S", "T", "O", "R", "E", "D">>
SetAuth == <<"s", "e", "t", " ", "a", "u", "t", "h", " ", "x", " ", "0", " ">>
\* connection.py:38-41  b"%s %s" % (username.encode("utf-8"), password.encode("utf-8"))
AuthData(u, p) == Encode(u) \o <<SP>> \o Encode(p)
\* connection.py:42-44  b"set auth x 0 %d\r\n" % len(auth_data), auth_data, b"\r\n"
AuthBytes(u, p) ==
    SetAuth \o DecimalStr(Len(AuthData(u, p))) \o CRLF \o AuthData(u, p) \o CRLF

AuthAcceptsAny(v, response) == TRUE
\* connection.py:47  response != b"STORED\r\n"; async_connection.py:42  response != b"STORED"
AuthAccepts(v, response) ==
    IF v = "blocking" THEN response = Stored \o CRLF ELSE response = Stored

\* bytes.rstrip(NEWLINE): drop trailing bytes that are "\r" or "\n"
RECURSIVE RStripNewline(_)
RStripNewline(s) ==
    IF s # <<>> /\ s[Len(s)] \in {"\r", "\n"}
    THEN RStripNewline(SubSeq(s, 1, Len(s) - 1)) ELSE s

\* What the server sends in answer to the auth exchange before it says no more.
AuthReplies ==
    { Stored \o CRLF,
      <<"E", "R", "R", "O", "R">> \o CRLF,
      Stored \o <<" ">> \o CRLF,
      Stored \o <<"\n">>,
      <<>> }

\* connection.py:35-48, async_connection.py:31-43  _auth on a fresh link, raw being
\* what the server answers: the bytes written, the answer when there was an
\* exchange, how many bytes had been written when it was read, and the exception
\* raised.  receive_until raises IncompleteRead when the
\* stream ends before a CRLF; readline returns what there is.
Auth(v, u, p, raw) ==
    IF u = None \/ p = None
    THEN [wrote |-> <<>>, reply |-> None, at |-> 0, err |-> NoErr]
    ELSE LET r == IF v = "blocking" THEN ReadLine(raw) ELSE AsyncReadLine(raw)
         IN [wrote |-> AuthBytes(u[1], p[1]),
             reply |-> Some(raw),
             at |-> Len(AuthBytes(u[1], p[1])),
             err |-> IF v = "cooperative" /\ ~r.found THEN Exc("IncompleteRead", <<>>)
                     ELSE IF AuthAccepts(v, r.line) THEN NoErr
                     ELSE Exc("MemcacheError",
                              IF v = "blocking" THEN RStripNewline(r.line) ELSE r.line)]

ConnectBare(v, u, p, raw) == [wrote |-> <<>>, reply |-> None, at |-> 0, err |-> NoErr]
\* connection.py:29-33, async_connection.py:25-29  _connect: a new link, then _auth
Connect(v, u, p, raw) == Auth(v, u, p, raw)

\* The header of the command the executes send.
CommandBytes == <<"m", "n">> \o CRLF
\* stream.write / writer.send on the current link, the last one opened
WriteOn(ls, bytes) == [ls EXCEPT ![Len(ls)].wrote = @ \o bytes]
\* The commands written on a link after its handshake.
CommandsOn(l) == Cardinality({ i \in DOMAIN l.wrote : i > l.at /\ IsCrlfAt(l.wrote, i) })

\* connection.py:107-121, async_connection.py:100-118  the pool puts a connection
\* back only when the with-body returned: a connection whose operation raised is
\* not handed out again.
AfterRaise == "discarded"

\* connection.py:16-33  Connection(addr, username=, password=): connect and _auth.
\* When _auth raises there is no connection object.
AuthConstruct(raw) ==
    /\ UNCHANGED <<poolVars, connVars, codecVars, clientVars, ringVars>>
    /\ variant = "blocking" /\ cstate = "new"
    /\ LET l == Connect(variant, username, password, raw)
       IN /\ links' = Append(links, l)
          /\ cstate' = IF l.err = NoErr THEN "ready" ELSE AfterRaise
    /\ UNCHANGED <<username, password>>

\* connection.py:64-76, async_connection.py:57-71  execute_meta_command.  The
\* cooperative connection connects on its first use; reset says that the first
\* attempt ends in ConnectionResetError after its write, upon which both variants
\* connect again and send the command once more.  A failed _auth is not caught.
AuthExecute(reset, raw1, raw2) ==
    /\ UNCHANGED <<poolVars, connVars, codecVars, clientVars, ringVars>>
    /\ \/ cstate = "ready"
       \/ variant = "cooperative" /\ cstate = "new"
    /\ Len(links) < MaxLinks
    /\ cstate = "ready" => CommandsOn(links[Len(links)]) < MaxCalls
    /\ LET first == Connect(variant, username, password, raw1)
           opened == IF cstate = "new" THEN Append(links, first) ELSE links
           second == Connect(variant, username, password, raw2)
       IN IF cstate = "new" /\ first.err # NoErr
          THEN links' = opened /\ cstate' = AfterRaise
          ELSE IF ~reset
          THEN links' = WriteOn(opened, CommandBytes) /\ cstate' = "ready"
          ELSE IF second.err # NoErr
          THEN /\ links' = Append(WriteOn(opened, CommandBytes), second)
               /\ cstate' = AfterRaise
          ELSE /\ links' = WriteOn(Append(WriteOn(opened, CommandBytes), second),
                                   CommandBytes)
               /\ cstate' = "ready"
    /\ UNCHANGED <<username, password>>

\* connection.py:54-62, async_connection.py:45-55  flush_all.  The cooperative
\* connection connects on its first use; neither variant connects again.  An
\* answer other than OK is raised as MemcacheError.
AuthFlushAll(raw, ok) ==
    /\ UNCHANGED <<poolVars, connVars, codecVars, clientVars, ringVars>>
    /\ \/ cstate = "ready"
       \/ variant = "cooperative" /\ cstate = "new"
    /\ Len(links) < MaxLinks
    /\ cstate = "ready" => CommandsOn(links[Len(links)]) < MaxCalls
    /\ LET first == Connect(variant, username, password, raw)
           opened == IF cstate = "new" THEN Append(links, first) ELSE links
       IN IF cstate = "new" /\ first.err # NoErr
          THEN links' = opened /\ cstate' = AfterRaise
          ELSE /\ links' = WriteOn(opened, FlushLine(0))
               /\ cstate' = IF ok THEN "ready" ELSE AfterRaise
    /\ UNCHANGED <<username, password>>

AuthNext ==
    \/ \E raw \in AuthReplies : AuthConstruct(raw)
    \/ \E raw \in AuthReplies, ok \in BOOLEAN : AuthFlushAll(raw, ok)
    \/ \E reset \in BOOLEAN, raw1, raw2 \in AuthReplies : AuthExecute(reset, raw1, raw2)

InitAuth ==
    /\ variant \in {"blocking", "cooperative"} /\ PoolQuiet /\ ConnQuiet /\ ClientQuiet
    /\ username \in Credentials(Users)
    /\ password \in Credentials(Passwords)
    /\ cstate = "new"
    /\ links = <<>>
\* One connection of a pool, with or without credentials, and the links it opens.
SpecAuth == InitAuth /\ [][AuthNext]_vars

\* ---- claims on the handshake ----
StartsWith(s, prefix) ==
    Len(s) >= Len(prefix) /\ SubSeq(s, 1, Len(prefix)) = prefix

PoolFairness ==
    \A t \in Callers :
        /\ WF_vars(PoolWaitGet(t)) /\ WF_vars(AsyncPoolWaitGet(t))
        /\ WF_vars(PoolTimeout(t)) /\ WF_vars(AsyncPoolTimeout(t))
\* Callers sharing one pool, under fair scheduling of the waiters.
SpecPoolFair == InitPool /\ [][PoolNext]_vars /\ PoolFairness

\* Caller t waits in its acquire for an idle connection, and there is one.
Woken(t) == pc[t] = "wait" /\ ~thrown[t] /\ connections # <<>>
\* No caller but t ever dequeues: none was handed a connection from the idle queue
\* and none waits for one.
OnlyWaiter(t) == \A u \in Callers \ {t} : pc[u] \notin {"body_try", "wait"}

C34_TimeoutChangesNothing ==
    [][\A t \in Callers :
          /\ (pc'[t] # pc[t] /\ pc'[t] \in {"check", "wait"})
                => (size' = size /\ connections' = connections)
          /\ (pc[t] = "wait" /\ pc'[t] = "idle" /\ err'[t] = TimeoutError(variant))
                => (size' = size /\ connections' = connections)
          /\ (pc[t] = "idle" /\ err[t] = TimeoutError(variant) /\ pc'[t] # "idle"
                /\ connections # <<>>)
                => /\ Held(t)' /\ conn'[t] = Head(connections)
                   /\ connections' = Tail(connections)
                   /\ size' = size]_vars
\* An acquire has timed out at max_size and a holder has since put its connection
\* back.
C34_Witness ==
    /\ size = max_size
    /\ connections # <<>>
    /\ \E t \in Callers : pc[t] = "idle" /\ err[t] = TimeoutError(variant)

\* C35: an exception raised in the with-body leaves the pool's generator as it is:
\* the caller is out of the with statement with that exception, and the pool has
\* not gone on to check its size, wait or create a connection.
C35_BodyExceptionUntouched ==
    [][\A t \in Callers : \A e \in BodyErrors(variant) :
          (PoolBodyRaise(t, e) \/ AsyncPoolBodyRaise(t, e))
              => /\ pc'[t] = "idle" /\ err'[t] = e
                 /\ size' = size /\ made' = made]_vars

\* C36: blocking pool: when creating the connection fails, the failing acquire
\* leaves the size counter as it found it, so the step that fails gives back the
\* increment the acquire made.
C36_FailedCreationFreesCapacity ==
    [][\A t \in Callers :
          (variant = "blocking" /\ pc[t] = "create" /\ pc'[t] = "idle"
             /\ err'[t] = "OSError")
              => size' = size - 1]_vars

\* ------------------------------------------------------------------ calls over one pool
\* One caller at a time uses a client with one endpoint: every call takes a
\* connection from the pool, executes its command and leaves the with statement.
IsRead(c) == "args" \in DOMAIN c
CapacityCommandOf(c) == IF IsRead(c) THEN ReadCommandOf(c) ELSE ClientCommandOf(c)
CapacityOutcomeOf(c, a) == IF IsRead(c) THEN ReadOutcome(c, a) ELSE ClientOutcomeOf(c, a)

CapacityCalls(k) ==
    IF k = "Memcache"
    THEN { Call("memcache", 1, op, Some([t |-> "str", d |-> <<"b", "c">>]), None,
                IF op = "cas" THEN Some(7) ELSE None) : op \in {"set", "cas"} }
    ELSE { Call("meta", 1, op, Some([t |-> "str", d |-> <<"b", "c">>]), None,
                IF op = "cas" THEN Some(7) ELSE None) : op \in {"set", "cas"} }
         \cup { ReadCall("incr", [delta |-> 1, initial |-> None, initial_ttl |-> None,
                                  update_ttl |-> None]) }
\* What the execute ends with: for Memcache a complete response of the server; for
\* MetaClient also an exception of the execute.
CapacityAnswers(c) ==
    IF c.api = "memcache" THEN { a \in Answers : "ok" \in DOMAIN a }
    ELSE IF IsRead(c) THEN ReadAnswers(c.op)
    ELSE Answers

\* connection.py:105-121, memcache.py:198-214  Pool.get up to its yield, while no
\* other caller holds or releases a connection: the wait at max_size ends with the
\* timeout.
Acquire(q, sz, mx, md) ==
    IF q # <<>> THEN [conn |-> Head(q), q |-> Dequeued(q), size |-> sz, made |-> md]
    ELSE IF AtCap(sz, mx) THEN [raised |-> TimeoutError(variant)]
    ELSE [conn |-> md + 1, q |-> q, size |-> sz + 1, made |-> md + 1]

BodyInterprets(c, a) == CapacityOutcomeOf(c, a).kind = "returned"
\* Whether the with-body returns.  memcache.py:303-346: the body of a Memcache
\* method is the Connection method, which maps the result and may raise.
\* meta_client.py:252-256 (set), 401-407 (cas), 484-493 (incr): the body of a
\* MetaClient method is the execute alone, the result is mapped after the with.
BodyReturns(c, a) ==
    IF c.api = "memcache" THEN CapacityOutcomeOf(c, a).kind = "returned"
    ELSE "ok" \in DOMAIN a

\* A method is called with no other call in progress; its execute ends with a.
CapacityCall(c, a) ==
    /\ ncalls < MaxCalls
    /\ call' = c
    /\ ncalls' = ncalls + 1
    /\ LET acq == Acquire(connections, size, max_size, made)
       IN IF "raised" \in DOMAIN acq
          THEN /\ ccmd' = IF c.api = "meta" THEN CapacityCommandOf(c) ELSE NoCommand
               /\ cresp' = NoOutcome
               /\ ret' = Raised(acq.raised)
               /\ UNCHANGED <<size, made, connections>>
          ELSE /\ ccmd' = CapacityCommandOf(c)
               /\ cresp' = a
               /\ ret' = CapacityOutcomeOf(c, a)
               /\ size' = acq.size
               /\ made' = acq.made
               /\ connections' = IF BodyReturns(c, a) THEN Enqueued(acq.q, acq.conn)
                                 ELSE acq.q
    /\ UNCHANGED <<variant, max_size, lock, pc, conn, thrown, err>>
    /\ UNCHANGED <<store, next_cas, seen, since, last_set, hung>>
    /\ UNCHANGED <<klass, ring, nodes, trail, routed>>
    /\ UNCHANGED <<connVars, codecVars, authVars>>

CapacityNext ==
    \E c \in CapacityCalls(klass) : \E a \in CapacityAnswers(c) : CapacityCall(c, a)

InitCapacity ==
    /\ PoolInit /\ ConnQuiet /\ RingQuiet /\ AuthQuiet
    /\ klass \in Classes
    /\ ring = <<>> /\ nodes = <<>> /\ trail = <<>> /\ routed = <<>>
    /\ ncalls = 0
\* Calls, one after the other, on a client whose pool holds up to max_size
\* connections.
SpecCapacity == InitCapacity /\ [][CapacityNext]_vars

\* ---- claims on the pool's capacity ----
\* Connections the pool counts that are not on its idle queue.
Missing(sz, q) == sz - Len(q)

\* C37: Memcache, every response complete, no other caller around: whatever cas
\* calls have raised MemcacheError for an rc other than HD, no call ends with the
\* pool-timeout error.
C37_CasFailureKeepsCapacity ==
    (klass = "Memcache" /\ call # NoCall) => ret # Raised(TimeoutError(variant))

\* C38: a MetaClient call whose execute returned a response leaves as many
\* connections away from the idle queue as it found, whatever it makes of rc; the
\* connection it used is the last of the idle queue, and the size counter changes
\* only when the call found the queue empty.
C38_ReleaseBeforeInterpret ==
    [][(call'.api = "meta" /\ ncalls' = ncalls + 1 /\ "ok" \in DOMAIN cresp')
          => /\ Missing(size', connections') = Missing(size, connections)
             /\ connections' # <<>>
             /\ connections # <<>> =>
                   /\ size' = size
                   /\ connections' = Tail(connections) \o <<Head(connections)>>]_vars
\* A cas of MetaClient has ended with False or MemcacheError on a complete response,
\* after an earlier call, and every connection of the pool is idle.
C38_Witness ==
    /\ klass = "MetaClient"
    /\ ncalls = 2
    /\ call.op = "cas"
    /\ "ok" \in DOMAIN cresp /\ cresp.ok.rc \in {EX, NS}
    /\ ret \in {Returned("False"), Raised("MemcacheError")}
    /\ Missing(size, connections) = 0 /\ size = 1

\* C39: a set of Memcache (AsyncMemcache has the same code) that returns has had a
\* response with rc HD.
C39_SetOnlyOnHD ==
    (call.api = "memcache" /\ call.op = "set" /\ ret.kind = "returned")
        => ("ok" \in DOMAIN cresp /\ cresp.ok.rc = HD)

\* ------------------------------------------------------------------ _parse_flags on inputs
\* Flag tokens of a response: well-formed ones, an empty one, opcodes _parse_flags
\* does not know, and arguments that are no integer or no UTF-8.
FlagTokens ==
    { <<>>,
      <<"f", "0">>, <<"f", "3", "2">>, <<"c", "5">>, <<"t", "9">>, <<"t", "-", "1">>,
      <<"l", "3">>, <<"s", "1">>, <<"h", "0">>, <<"h", "1">>, <<"h", "2">>,
      <<"W">>, <<"X">>, <<"Z">>,
      <<"k", "a">>, <<"k", "C3", "A9">>,
      <<"O", "1">>, <<"q">>, <<"b">>,
      <<"f">>, <<"s", "x">>, <<"k", "C3">> }
FlagLists == UNION { [1..n -> FlagTokens] : n \in 0..MaxTokens }

FlagsCall(flags) == [api |-> "meta", by |-> 1, op |-> "_parse_flags", args |-> flags]
\* _parse_flags is applied to the list drawn.
ParseFlagsCalled ==
    /\ call.op = "_parse_flags" /\ ret = NoOutcome
    /\ ret' = ParseFlags(call.args)
    /\ UNCHANGED <<call, ccmd, cresp, store, next_cas, seen, since, last_set, hung>>
    /\ UNCHANGED <<poolVars, connVars, codecVars, ringVars, authVars>>
FlagsNext == ParseFlagsCalled
InitFlags ==
    /\ variant = "blocking" /\ PoolQuiet /\ ConnQuiet /\ AuthQuiet
    /\ call \in { FlagsCall(flags) : flags \in FlagLists }
    /\ ccmd = NoCommand /\ cresp = NoOutcome /\ ret = NoOutcome
    /\ store = None /\ next_cas = 1
    /\ seen = [t \in Callers |-> None] /\ since = [t \in Callers |-> None]
    /\ last_set = None /\ hung = {}
    /\ klass = "none" /\ ring = <<>> /\ nodes = <<>> /\ trail = <<>> /\ routed = <<>>
    /\ ncalls = 0
\* _parse_flags applied to lists of flag tokens.
SpecFlags == InitFlags /\ [][FlagsNext]_vars

\* ---- claims on _parse_flags ----
KnownOpcodes == {"f", "c", "t", "l", "s", "h", "W", "X", "Z", "k"}
\* The tokens of the list with this opcode, in order.
RECURSIVE TokensWith(_, _)
TokensWith(flags, op) ==
    IF flags = <<>> THEN <<>>
    ELSE (IF flags[1] # <<>> /\ flags[1][1] = op THEN <<flags[1]>> ELSE <<>>)
             \o TokensWith(Tail(flags), op)
\* The list without its empty tokens and without the tokens of other opcodes.
RECURSIVE KnownTokens(_)
KnownTokens(flags) ==
    IF flags = <<>> THEN <<>>
    ELSE (IF flags[1] # <<>> /\ flags[1][1] \in KnownOpcodes THEN <<flags[1]>> ELSE <<>>)
             \o KnownTokens(Tail(flags))
\* Entry e is absent without a token of opcode op, and otherwise what `of` makes of
\* the argument of the last such token.
EntryIs(e, flags, op, of(_)) ==
    LET ts == TokensWith(flags, op)
    IN IF ts = <<>> THEN e = None ELSE e = Some(of(Tail(ts[Len(ts)])))
IntOf(rest) == IntValue(rest)
NonZero(rest) == IntValue(rest) # 0
TrueOf(rest) == TRUE
TextOf(rest) == Decode(rest).ok

\* C40: a returned dictionary has client_flags, cas_token, ttl, last_access and size
\* as the integer after f, c, t, l, s, hit_before true iff the integer after h is not
\* 0, won_recache / is_stale / already_won true for W / X / Z, key the text after k,
\* each absent without its token; and empty tokens and tokens of other opcodes add
\* nothing and raise nothing: the call ends as it does on the list without them.
C40_ParseFlags ==
    (call.op = "_parse_flags" /\ ret # NoOutcome) =>
        /\ ret = ParseFlags(KnownTokens(call.args))
        /\ ret.kind = "returned" =>
              /\ EntryIs(ret.val.client_flags, call.args, "f", IntOf)
              /\ EntryIs(ret.val.cas_token, call.args, "c", IntOf)
              /\ EntryIs(ret.val.ttl, call.args, "t", IntOf)
              /\ EntryIs(ret.val.last_access, call.args, "l", IntOf)
              /\ EntryIs(ret.val.size, call.args, "s", IntOf)
              /\ EntryIs(ret.val.hit_before, call.args, "h", NonZero)
              /\ EntryIs(ret.val.won_recache, call.args, "W", TrueOf)
              /\ EntryIs(ret.val.is_stale, call.args, "X", TrueOf)
              /\ EntryIs(ret.val.already_won, call.args, "Z", TrueOf)
              /\ EntryIs(ret.val.key, call.args, "k", TextOf)
\* A list with a negative t, an h of 2 or a two-byte key next to an unknown or empty
\* token was parsed.
C40_Witness ==
    /\ call.op = "_parse_flags" /\ ret.kind = "returned"
    /\ Len(call.args) = 2
    /\ call.args[1] \in { <<"t", "-", "1">>, <<"h", "2">>, <<"k", "C3", "A9">> }
    /\ call.args[2] \in { <<>>, <<"q">>, <<"O", "1">> }
    /\ ret.val # NoFlags

C32_LazyConnect ==
    [][\A raw \in AuthReplies : AuthConstruct(raw) => links' = links]_vars

====
